---- MODULE Spec2Model ----
(***************************************************************************)
(* Mapping resolution and scoring engine of schema-translator.             *)
(*                                                                         *)
(* The model follows src/src/app/core/resolver.py (MappingResolver),       *)
(* src/src/app/core/llm_mapper.py (LLMMapper.map_column) and the records   *)
(* of src/src/app/shared/models.py.                                        *)
(*                                                                         *)
(* Numbers.  Every score of the program is a float in [0,1].  The model    *)
(* keeps sub-scores, confidences, weights and thresholds in hundredths     *)
(* (0.75 is 75) and final_score, a sum of weight*sub-score products, in    *)
(* ten-thousandths (0.75 is 7500).  Python's None is the string "None"     *)
(* for Optional[str] fields and the empty sequence for Optional records.   *)
(***************************************************************************)
EXTENDS Integers, Sequences, FiniteSets, TLC

VARIABLES
    cfg,        \* settings read by MappingResolver.__init__
    pc,         \* position inside resolve_batch_mappings
    batch,      \* column_profiles consumed so far by the loop
    responses,  \* the LLMResponse LLMMapper.map_column returned for each of them
    mappings,   \* the local list `mappings` / the returned list
    clock,      \* last value read from datetime.utcnow()
    schema_columns, \* the columns discover_tenant_schema lists for the table
    sample_files,   \* what the tenant's sample directory holds for the table
    profiles,       \* the local list `profiles` / the returned list
    ppc,            \* position inside the profiler
    mapping_plan,   \* mapping_plan.mappings handed to apply_mapping_plan
    source_data,    \* table name -> the table's columns and their cells
    table_mappings, \* entries of table_mappings the loop has not visited yet
    output_df,      \* canonical field -> the source columns that fill it
    output_cells,   \* canonical field -> the cells of that output column
    lineage_records, \* the local list `lineage_records`
    errors,         \* the local list `errors`
    xpc,            \* position inside apply_mapping_plan
    statuses_read   \* the status values a consumer of the resolver has read

resolver_vars == <<cfg, pc, batch, responses, mappings, clock>>

profiler_vars == <<schema_columns, sample_files, profiles, ppc>>

executor_vars == <<mapping_plan, source_data, table_mappings, output_df,
                   output_cells, lineage_records, errors, xpc>>

consumer_vars == <<statuses_read>>

vars == <<cfg, pc, batch, responses, mappings, clock,
          schema_columns, sample_files, profiles, ppc,
          mapping_plan, source_data, table_mappings, output_df,
          output_cells, lineage_records, errors, xpc, statuses_read>>

\* Longest batch of column profiles handed to resolve_batch_mappings.
MaxBatch == 2

None == "None"

(***************************************************************************)
(* Settings (config.py) and the canonical catalog                          *)
(***************************************************************************)

\* Settings defaults: thresholds 0.75 / 0.5, weights 0.5 / 0.2 / 0.2 / 0.1.
DefaultSettings ==
    [ auto_accept_threshold |-> 75,
      hitl_threshold        |-> 50,
      weight_llm            |-> 50,
      weight_name           |-> 20,
      weight_type           |-> 20,
      weight_profile        |-> 10 ]

\* Settings are plain floats read from the environment; nothing validates them.
\* The configurations explored: the defaults, weights that do not sum to 1,
\* all the weight on the LLM signal together with equal thresholds, thresholds
\* in the wrong order.
Configs ==
    { DefaultSettings,
      [DefaultSettings EXCEPT !.weight_llm = 90],
      [DefaultSettings EXCEPT !.weight_llm = 100, !.weight_name = 0,
                              !.weight_type = 0, !.weight_profile = 0,
                              !.auto_accept_threshold = 60, !.hitl_threshold = 60],
      [DefaultSettings EXCEPT !.auto_accept_threshold = 50, !.hitl_threshold = 75] }

\* The catalog LLMMapper loads once at start-up: field names with their types,
\* in catalog order.
canonical_schema ==
    << [name |-> "contract_id",         type |-> "string"],
       [name |-> "party_seller",        type |-> "string"],
       [name |-> "effective_date",      type |-> "date"],
       [name |-> "contract_value_ltv",  type |-> "decimal"],
       [name |-> "status",              type |-> "enum"],
       [name |-> "contract_type",       type |-> "enum"],
       [name |-> "auto_renew",          type |-> "bool"],
       [name |-> "renewal_term_months", type |-> "int"] >>

get_schema_field_names == [i \in 1..Len(canonical_schema) |-> canonical_schema[i].name]

\* The expected type of a field, or None when the catalog has no such field.
get_schema_field_by_name(field_name) ==
    IF \E i \in 1..Len(canonical_schema) : canonical_schema[i].name = field_name
    THEN (CHOOSE f \in {canonical_schema[i] : i \in 1..Len(canonical_schema)} :
              f.name = field_name).type
    ELSE None

(***************************************************************************)
(* Column profiles                                                         *)
(***************************************************************************)

SourceColumn(col) == [tenant |-> "tenant_A", table |-> "contracts", column |-> col]

\* SchemaDiscoverer._empty_profile
EmptyProfile(col) ==
    [ source_column    |-> SourceColumn(col),
      non_null_count   |-> 0,
      distinct_ratio   |-> 0,
      sample_values    |-> << >>,
      inferred_type    |-> "string",
      date_patterns    |-> << >>,
      currency_symbols |-> << >> ]

\* The profiles a batch is drawn from.
Profiles ==
    { [ source_column    |-> SourceColumn("contract_id"),
        non_null_count   |-> 2,
        distinct_ratio   |-> 100,
        sample_values    |-> <<"CNT-001", "CNT-002">>,
        inferred_type    |-> "string",
        date_patterns    |-> << >>,
        currency_symbols |-> << >> ],
      [ source_column    |-> SourceColumn("vendor_name"),
        non_null_count   |-> 1,
        distinct_ratio   |-> 100,
        sample_values    |-> <<"Acme Corp">>,
        inferred_type    |-> "string",
        date_patterns    |-> << >>,
        currency_symbols |-> << >> ],
      [ source_column    |-> SourceColumn("auto_renew_flag"),
        non_null_count   |-> 10,
        distinct_ratio   |-> 20,
        sample_values    |-> <<"true", "false">>,
        inferred_type    |-> "bool",
        date_patterns    |-> << >>,
        currency_symbols |-> << >> ],
      EmptyProfile("cust_nm") }

(***************************************************************************)
(* Heuristic signals (resolver.py, lines 178-353)                          *)
(***************************************************************************)

\* What each regular expression and keyword test of _calculate_profile_score
\* answers on the sample strings of the model (re.match anchors at the start
\* of the string only).
SampleStrings ==
    {"CNT-001", "CNT-002", "Acme Corp", "true", "false", "2024-01-15",
     "01/15/2024", "$1,200.50", "active", "MSA", "C100", "12", "1", "99",
     "True", "False"}

\* re.match(r'\d+', v)
MatchesDigits == {"2024-01-15", "01/15/2024", "12", "1", "99"}
\* re.match(r'[A-Z]+\d+', v)
MatchesLettersDigits == {"C100"}
\* re.match(r'[A-Z0-9\-]+', v)
MatchesUpperDash ==
    {"CNT-001", "CNT-002", "Acme Corp", "2024-01-15", "01/15/2024", "MSA", "C100",
     "12", "1", "99", "True", "False"}
id_patterns == <<MatchesDigits, MatchesLettersDigits, MatchesUpperDash>>
\* re.match(r'\d{4}-\d{2}-\d{2}', v) or re.match(r'\d{1,2}/\d{1,2}/\d{4}', v)
DateLike == {"2024-01-15", "01/15/2024"}
\* re.match(r'[\$...]?[\d,]+\.?\d*', v)
NumericLike == {"2024-01-15", "01/15/2024", "$1,200.50", "12", "1", "99"}
\* any(keyword in v.lower() for keyword in status_keywords)
StatusLike == {"active"}
\* any(keyword in v.lower() for keyword in type_keywords)
ContractTypeLike == {"MSA"}
\* v.lower() in bool_values
BoolLike == {"true", "false", "1", "True", "False"}
\* str(v).isdigit()
IsDigit == {"12", "1", "99"}
\* 1 <= float(v) <= 60
MonthRange == {"12", "1"}

\* Number of entries of the sequence vals that lie in the set S.
CountIn(vals, S) == Cardinality({i \in 1..Len(vals) : vals[i] \in S})

\* max(fuzz.ratio, fuzz.partial_ratio, fuzz.token_sort_ratio) of the fuzz
\* library on the normalized names, for the column names of Profiles.
FuzzScores(col) ==
    CASE col = "contract_id" ->
           [contract_id |-> 100, party_seller |-> 20, effective_date |-> 40,
            contract_value_ltv |-> 80, status |-> 50, contract_type |-> 80,
            auto_renew |-> 29, renewal_term_months |-> 38, unknown_field |-> 44,
            expiry_date |-> 13, contract_value_arr |-> 80]
      [] col = "vendor_name" ->
           [contract_id |-> 20, party_seller |-> 25, effective_date |-> 62,
            contract_value_ltv |-> 22, status |-> 18, contract_type |-> 17,
            auto_renew |-> 40, renewal_term_months |-> 30, unknown_field |-> 29,
            expiry_date |-> 40, contract_value_arr |-> 33]
      [] col = "auto_renew_flag" ->
           [contract_id |-> 30, party_seller |-> 36, effective_date |-> 38,
            contract_value_ltv |-> 25, status |-> 21, contract_type |-> 29,
            auto_renew |-> 100, renewal_term_months |-> 46, unknown_field |-> 43,
            expiry_date |-> 26, contract_value_arr |-> 25]
      [] col = "cust_nm" ->
           [contract_id |-> 33, party_seller |-> 17, effective_date |-> 33,
            contract_value_ltv |-> 36, status |-> 44, contract_type |-> 33,
            auto_renew |-> 47, renewal_term_months |-> 22, unknown_field |-> 33,
            expiry_date |-> 18, contract_value_arr |-> 33]
      [] col = "expiry_date" ->
           [contract_id |-> 27, party_seller |-> 43, effective_date |-> 60,
            contract_value_ltv |-> 29, status |-> 36, contract_type |-> 18,
            auto_renew |-> 50, renewal_term_months |-> 40, unknown_field |-> 31,
            expiry_date |-> 100, contract_value_arr |-> 29]

_calculate_name_similarity(source_column, canonical_field) ==
    FuzzScores(source_column)[canonical_field]

\* The compatibility matrix: source type -> canonical type -> score.
compatibility ==
    [ string  |-> [string |-> 100, enum |-> 80, date |-> 60, decimal |-> 30,
                   int |-> 30, bool |-> 20],
      int     |-> [int |-> 100, decimal |-> 90, bool |-> 70, string |-> 30,
                   enum |-> 20, date |-> 0],
      decimal |-> [decimal |-> 100, int |-> 80, string |-> 30, bool |-> 10,
                   enum |-> 10, date |-> 0],
      bool    |-> [bool |-> 100, int |-> 70, string |-> 50, enum |-> 40,
                   decimal |-> 10, date |-> 0],
      date    |-> [date |-> 100, string |-> 60, datetime |-> 90, int |-> 10,
                   decimal |-> 0, bool |-> 0, enum |-> 0],
      enum    |-> [enum |-> 100, string |-> 80, bool |-> 60, int |-> 30,
                   decimal |-> 10, date |-> 0] ]

_calculate_type_compatibility(source_type, canonical_field) ==
    LET expected_type == get_schema_field_by_name(canonical_field) IN
    IF expected_type = None THEN 0
    ELSE IF source_type \notin DOMAIN compatibility THEN 0
    ELSE IF expected_type \notin DOMAIN compatibility[source_type] THEN 0
    ELSE compatibility[source_type][expected_type]

Min(a, b) == IF a <= b THEN a ELSE b

_calculate_profile_score(column_profile, canonical_field) ==
    LET vals == column_profile.sample_values
        n    == Len(vals)
        score ==
          IF canonical_field = "contract_id" THEN
              (IF column_profile.distinct_ratio > 90 THEN 50 ELSE 0)
              + (IF \E k \in 1..Len(id_patterns) :
                       10 * CountIn(vals, id_patterns[k]) > 7 * n
                 THEN 30 ELSE 0)
          ELSE IF canonical_field \in {"effective_date", "expiry_date"} THEN
              (IF column_profile.date_patterns # << >> THEN 60 ELSE 0)
              + (IF 2 * CountIn(vals, DateLike) > n THEN 40 ELSE 0)
          ELSE IF canonical_field \in {"contract_value_ltv", "contract_value_arr"} THEN
              (IF column_profile.inferred_type \in {"decimal", "int"} THEN 40 ELSE 0)
              + (IF column_profile.currency_symbols # << >> THEN 40 ELSE 0)
              + (IF 10 * CountIn(vals, NumericLike) > 7 * n THEN 20 ELSE 0)
          ELSE IF canonical_field \in {"status", "contract_type"} THEN
              (IF column_profile.distinct_ratio < 30 THEN 40 ELSE 0)
              + (IF canonical_field = "status"
                 THEN (IF CountIn(vals, StatusLike) > 0 THEN 30 ELSE 0)
                 ELSE (IF CountIn(vals, ContractTypeLike) > 0 THEN 30 ELSE 0))
          ELSE IF canonical_field = "auto_renew" THEN
              (IF column_profile.inferred_type = "bool" THEN 50 ELSE 0)
              + (IF \A i \in 1..n : vals[i] \in BoolLike THEN 40 ELSE 0)
          ELSE IF canonical_field = "renewal_term_months" THEN
              (IF column_profile.inferred_type = "int" THEN 40 ELSE 0)
              + (IF /\ CountIn(vals, IsDigit) > 0
                    /\ \A i \in 1..n : vals[i] \in IsDigit => vals[i] \in MonthRange
                 THEN 30 ELSE 0)
          ELSE 0
    IN  Min(score, 100)

(***************************************************************************)
(* Profiler (discovery.py): from the cells of a sample column to its       *)
(* ColumnProfile                                                           *)
(***************************************************************************)

\* Number of rows of a sample file.
Rows == 22

\* A column of the sample DataFrame: the cells s, then null cells down to the
\* last row.  A cell is the text astype(str) gives, or None for a null cell.
Pad(s) == [i \in 1..Rows |-> IF i <= Len(s) THEN s[i] ELSE None]

\* A value on which dateutil's parser raises OverflowError.
BigNumber == "99999999999999999999999"

\* The sample columns the profiler is run on.
SampleColumns ==
    { Pad(<< >>),
      Pad(<<"CNT-001", "CNT-002", "CNT-003">>),
      Pad(<<"True", "False", "True">>),
      Pad(<<"1", "0", "1">>),
      Pad(<<"12", "3", "24">>),
      Pad(<<"1.5", "2.5", "3.5">>),
      Pad(<<"2023-01-01", "2023-02-01", "2023-03-01">>),
      Pad(<<"01/01/2023", "02/01/2023", "03/01/2023">>),
      Pad(<<"2023-01-01T10:00:00", "2023-02-01T10:00:00">>),
      Pad(<<"2023-01-01", "abc", "2023-02-01", "xyz">>),
      Pad(<<"2023-01-01", "2023-02-01", "2023-03-01", "01/01/2023", "02/01/2023",
            "03/01/2023", "2023-01-01T10:00:00", "abc", "xyz", "abc">>),
      Pad(<<"active", "draft", "active", "active", "draft", "active">>),
      Pad(<<"$100.00", "$200.50", "£300.75">>),
      [i \in 1..Rows |-> IF i = 1 THEN None ELSE IF i <= 21 THEN "$100.00" ELSE "€200.50"],
      Pad(<<"abc", BigNumber>>) }

\* str.lower() on the cell texts of the model.
Lower(v) ==
    CASE v = "True"    -> "true"
      [] v = "False"   -> "false"
      [] v = "CNT-001" -> "cnt-001"
      [] v = "CNT-002" -> "cnt-002"
      [] v = "CNT-003" -> "cnt-003"
      [] v = "2023-01-01T10:00:00" -> "2023-01-01t10:00:00"
      [] v = "2023-02-01T10:00:00" -> "2023-02-01t10:00:00"
      [] OTHER -> v

\* bool_values of _infer_column_type
bool_values == {"true", "false", "1", "0", "yes", "no", "t", "f"}

\* Cell texts pd.to_numeric(..., errors='raise') converts.
ToNumericAccepts == {"1", "0", "12", "3", "24", "1.5", "2.5", "3.5", BigNumber}

\* Cell texts date_parser.parse returns a date for, among the texts that reach
\* it (cells of columns that are neither boolean nor numeric); on the other
\* texts of such columns it raises ValueError, on BigNumber OverflowError.
DateParserAccepts ==
    {"2023-01-01", "2023-02-01", "2023-03-01", "01/01/2023", "02/01/2023",
     "03/01/2023", "2023-01-01T10:00:00", "2023-02-01T10:00:00", "2024-01-15"}
DateParserOverflows == {BigNumber}

\* Cell texts each regular expression of date_regexes matches.
MatchesYMD == {"2023-01-01", "2023-02-01", "2023-03-01", "2024-01-15"}
MatchesSlashYearLast == {"01/01/2023", "02/01/2023", "03/01/2023"}
MatchesSlashYearFirst == {}
MatchesIsoDatetime == {"2023-01-01T10:00:00", "2023-02-01T10:00:00"}

\* date_regexes, in dictionary order.
date_regexes ==
    << [pattern_name |-> "YYYY-MM-DD",   matches |-> MatchesYMD],
       [pattern_name |-> "MM/DD/YYYY",   matches |-> MatchesSlashYearLast],
       [pattern_name |-> "DD/MM/YYYY",   matches |-> MatchesSlashYearLast],
       [pattern_name |-> "YYYY/MM/DD",   matches |-> MatchesSlashYearFirst],
       [pattern_name |-> "ISO_DATETIME", matches |-> MatchesIsoDatetime] >>

\* re.findall(currency_regex, value) as a set.
CurrencyGlyphs(v) ==
    CASE v \in {"$100.00", "$200.50"} -> {"$"}
      [] v = "£300.75" -> {"£"}
      [] v = "€200.50" -> {"€"}
      [] OTHER -> {}

Range(s) == {s[i] : i \in 1..Len(s)}

\* Series.dropna()
IsNotNull(v) == v # None
dropna(col_data) == SelectSeq(col_data, IsNotNull)

\* Series.unique(): the distinct values in order of first appearance.
unique(s) ==
    LET firsts == {i \in 1..Len(s) : \A j \in 1..(i - 1) : s[j] # s[i]}
    IN  [k \in 1..Cardinality(firsts) |->
            s[CHOOSE i \in firsts : Cardinality({j \in firsts : j <= i}) = k]]

\* Series.head(n)
head(s, n) == SubSeq(s, 1, Min(n, Len(s)))

\* pd.to_numeric(data, errors='raise', downcast='integer') and
\* pd.to_numeric(data, errors='raise') raise on the same data: downcast only
\* narrows the result when it can.  numeric_type is int or float.
_is_numeric_type(data, numeric_type) ==
    IF numeric_type = "int"
    THEN \A i \in 1..Len(data) : data[i] \in ToNumericAccepts
    ELSE \A i \in 1..Len(data) : data[i] \in ToNumericAccepts

\* _is_date_type raises: OverflowError is not among the exceptions it catches.
IsDateTypeRaises(str_data) ==
    \E v \in Range(head(str_data, 10)) : v \in DateParserOverflows

_is_date_type(str_data) ==
    LET sample == head(str_data, 10)
        parsed_count == CountIn(sample, DateParserAccepts)
    IN  10 * parsed_count > 7 * Len(sample)

\* The tests of _infer_column_type that come before the date test.
BeforeDateTest(non_null_data) ==
    \/ Len(non_null_data) = 0
    \/ \A v \in Range(non_null_data) : Lower(v) \in bool_values
    \/ _is_numeric_type(non_null_data, "int")
    \/ _is_numeric_type(non_null_data, "float")

InferColumnTypeRaises(col_data) ==
    /\ ~BeforeDateTest(dropna(col_data))
    /\ IsDateTypeRaises(dropna(col_data))

_infer_column_type(col_data) ==
    LET non_null_data == dropna(col_data)
        unique_count  == Len(unique(non_null_data))
        total_count   == Len(non_null_data)
    IN  IF Len(non_null_data) = 0 THEN "string"
        ELSE IF \A v \in Range(non_null_data) : Lower(v) \in bool_values THEN "bool"
        ELSE IF _is_numeric_type(non_null_data, "int") THEN "int"
        ELSE IF _is_numeric_type(non_null_data, "float") THEN "decimal"
        ELSE IF _is_date_type(non_null_data) THEN "date"
        ELSE IF unique_count <= 10 /\ 2 * unique_count < total_count THEN "enum"
        ELSE "string"

\* A detection that also reports a pattern matching exactly half of the values.
DetectDatePatternsFromHalf(col_data) ==
    LET str_data == dropna(col_data)
        Detected(r) == 2 * CountIn(str_data, r.matches) >= Len(str_data)
        found == SelectSeq(date_regexes, Detected)
    IN  IF Len(str_data) = 0 THEN << >>
        ELSE [i \in 1..Len(found) |-> found[i].pattern_name]

_detect_date_patterns(col_data) ==
    LET str_data == dropna(col_data)
        Detected(r) == 2 * CountIn(str_data, r.matches) > Len(str_data)
        found == SelectSeq(date_regexes, Detected)
    IN  IF Len(str_data) = 0 THEN << >>
        ELSE [i \in 1..Len(found) |-> found[i].pattern_name]

\* A detection that scans every value of the column.
DetectCurrencySymbolsEverywhere(col_data) ==
    UNION {CurrencyGlyphs(v) : v \in Range(dropna(col_data))}

\* The set `symbols` of _detect_currency_symbols.
_detect_currency_symbols(col_data) ==
    UNION {CurrencyGlyphs(v) : v \in Range(head(dropna(col_data), 20))}

\* list(symbols): the elements of a set in one of the orders iteration can take.
ListsOf(S) ==
    {l \in [1..Cardinality(S) -> S] : \A i, j \in 1..Cardinality(S) : l[i] = l[j] => i = j}

\* Whether profile_column raises on the loaded sample_data.
ProfileColumnRaises(column, sample_data) ==
    column \in DOMAIN sample_data /\ InferColumnTypeRaises(sample_data[column])

\* profile_column given sample_data; currency_symbols is the list made of the
\* detected set.  distinct_ratio is in hundredths.
profile_column(column, sample_data, currency_symbols) ==
    IF column \notin DOMAIN sample_data THEN EmptyProfile(column)
    ELSE LET col_data   == sample_data[column]
             total_rows == Len(col_data)
             distinct_count == Len(unique(dropna(col_data)))
         IN  [ source_column    |-> SourceColumn(column),
               non_null_count   |-> Len(dropna(col_data)),
               distinct_ratio   |-> IF total_rows > 0
                                    THEN Min((100 * distinct_count) \div total_rows, 100)
                                    ELSE 0,
               sample_values    |-> head(unique(dropna(col_data)), 10),
               inferred_type    |-> _infer_column_type(col_data),
               date_patterns    |-> _detect_date_patterns(col_data),
               currency_symbols |-> currency_symbols ]

(***************************************************************************)
(* MappingScore                                                            *)
(***************************************************************************)

\* A weighted sum that counts the LLM confidence against the mapping.
FinalScoreConfidenceSubtracted(llm_score, name_score, type_score, profile_score) ==
    cfg.weight_name * name_score
    + cfg.weight_type * type_score
    + cfg.weight_profile * profile_score
    - cfg.weight_llm * llm_score

\* final_score, the weighted sum of the four signals.
FinalScore(llm_score, name_score, type_score, profile_score) ==
    cfg.weight_llm * llm_score
    + cfg.weight_name * name_score
    + cfg.weight_type * type_score
    + cfg.weight_profile * profile_score

_calculate_mapping_score(column_profile, canonical_field, llm_confidence) ==
    LET llm_score     == llm_confidence
        name_score    == _calculate_name_similarity(
                             column_profile.source_column.column, canonical_field)
        type_score    == _calculate_type_compatibility(
                             column_profile.inferred_type, canonical_field)
        profile_score == _calculate_profile_score(column_profile, canonical_field)
        final_score   == FinalScore(llm_score, name_score, type_score, profile_score)
    IN  [ llm_confidence     |-> llm_score,
          name_similarity    |-> name_score,
          type_compatibility |-> type_score,
          value_range_match  |-> profile_score,
          final_score        |-> final_score,
          auto_accept        |-> final_score >= 100 * cfg.auto_accept_threshold,
          needs_hitl         |-> /\ final_score >= 100 * cfg.hitl_threshold
                                 /\ final_score < 100 * cfg.auto_accept_threshold ]

(***************************************************************************)
(* Proposal Source: OpenAIAdapter.map_column behind LLMMapper.map_column   *)
(***************************************************************************)

Proposal(field, confidence) ==
    [canonical_field |-> field, confidence |-> confidence, transform_hint |-> None]

Proposed(proposals) == [proposed_mappings |-> proposals, reasoning |-> "ok"]

\* Single proposals the Proposal Source answers with: field, confidence.
SingleProposals ==
    { <<"contract_id", 90>>, <<"contract_id", 58>>, <<"party_seller", 100>>,
      <<"party_seller", 40>>, <<"unknown_field", 100>> }

\* Well-formed answers: no proposal, one proposal, two proposals in either order.
LLMResponses ==
    {Proposed(<< >>)}
    \cup {Proposed(<<Proposal(p[1], p[2])>>) : p \in SingleProposals}
    \cup { Proposed(<<Proposal("party_seller", 100), Proposal("contract_id", 86)>>),
           Proposed(<<Proposal("contract_id", 86), Proposal("party_seller", 100)>>) }

\* What the adapter call does: it returns a validated LLMResponse, or it raises
\* (API error, text that is no JSON, JSON that fails LLMResponse validation).
AdapterOutcomes ==
    {[kind |-> "returns", response |-> r] : r \in LLMResponses}
    \cup {[kind |-> k, response |-> Proposed(<< >>)] :
              k \in {"api_error", "bad_json", "validation_error"}}

\* A handler that catches ValueError only.
CaughtValueErrorOnly(kind) == kind = "bad_json"

\* `except Exception` around the adapter call: RuntimeError, ValueError and
\* pydantic's ValidationError are all caught.
CaughtByMapper(kind) == kind \in {"api_error", "bad_json", "validation_error"}

\* Whether LLMMapper.map_column raises instead of returning.
MapColumnRaises(outcome) == outcome.kind # "returns" /\ ~CaughtByMapper(outcome.kind)

\* LLMMapper.map_column: any exception of the adapter call becomes the empty
\* response.
map_column(outcome) ==
    IF outcome.kind = "returns"
    THEN outcome.response
    ELSE [proposed_mappings |-> << >>, reasoning |-> "Error occurred during mapping"]

(***************************************************************************)
(* MappingResolver                                                         *)
(***************************************************************************)

\* ColumnMapping(...) with the defaults of the model class.
ColumnMapping(source_column, llm_response, now) ==
    [ source_column   |-> source_column,
      canonical_field |-> None,
      mapping_score   |-> << >>,
      llm_response    |-> llm_response,
      transform_rule  |-> None,
      status          |-> "pending",
      human_feedback  |-> << >>,
      created_at      |-> now ]

\* A heuristic score that leaves the value-profile signal out.
HeuristicNumeratorWithoutProfile(score) ==
    cfg.weight_name * score.name_similarity
    + cfg.weight_type * score.type_compatibility

\* heuristic_score of one field is HeuristicNumerator / HeuristicDenominator.
HeuristicNumerator(score) ==
    cfg.weight_name * score.name_similarity
    + cfg.weight_type * score.type_compatibility
    + cfg.weight_profile * score.value_range_match

HeuristicDenominator == cfg.weight_name + cfg.weight_type + cfg.weight_profile

\* The loop over self.canonical_fields from field i on; best_score is kept as
\* its numerator (all fields share the denominator, which is positive when the
\* loop runs to its end).
RECURSIVE HeuristicLoop(_, _, _, _)
HeuristicLoop(column_profile, i, best_field, best_num) ==
    IF i > Len(get_schema_field_names) THEN [field |-> best_field, num |-> best_num]
    ELSE LET field_name == get_schema_field_names[i]
             score == _calculate_mapping_score(column_profile, field_name, 0)
             num   == HeuristicNumerator(score)
         IN  IF num > best_num
             THEN HeuristicLoop(column_profile, i + 1, field_name, num)
             ELSE HeuristicLoop(column_profile, i + 1, best_field, best_num)

\* The division of the first loop iteration raises ZeroDivisionError.
HeuristicRaises == Len(get_schema_field_names) > 0 /\ HeuristicDenominator = 0

\* A heuristic-only path that accepts a plausible best field outright.
HeuristicOnlyAccepting(column_profile, llm_response, now) ==
    LET best    == HeuristicLoop(column_profile, 1, None, 0)
        mapping == ColumnMapping(column_profile.source_column, llm_response, now)
    IN  IF best.num > 60 * HeuristicDenominator
        THEN [mapping EXCEPT !.canonical_field = best.field, !.status = "accepted"]
        ELSE [mapping EXCEPT !.status = "rejected"]

_heuristic_only_mapping(column_profile, llm_response, now) ==
    LET best    == HeuristicLoop(column_profile, 1, None, 0)
        mapping == ColumnMapping(column_profile.source_column, llm_response, now)
    IN  IF best.num > 60 * HeuristicDenominator
        THEN [mapping EXCEPT !.canonical_field = best.field, !.status = "hitl_required"]
        ELSE [mapping EXCEPT !.status = "rejected"]

\* A maximum that keeps the last proposal of maximal score.
LastBestProposal(scores) ==
    CHOOSE i \in 1..Len(scores) :
        /\ \A j \in 1..Len(scores) : scores[j].final_score <= scores[i].final_score
        /\ \A j \in (i + 1)..Len(scores) : scores[j].final_score < scores[i].final_score

\* max(scored_proposals, key=final_score): the first proposal of maximal score.
BestProposal(scores) ==
    CHOOSE i \in 1..Len(scores) :
        /\ \A j \in 1..Len(scores) : scores[j].final_score <= scores[i].final_score
        /\ \A j \in 1..(i - 1) : scores[j].final_score < scores[i].final_score

\* A decision that rejects without clearing canonical_field.
DecideKeepingField(mapping, best_score) ==
    IF best_score.auto_accept THEN [mapping EXCEPT !.status = "accepted"]
    ELSE IF best_score.needs_hitl THEN [mapping EXCEPT !.status = "hitl_required"]
    ELSE [mapping EXCEPT !.status = "rejected"]

\* The decision from the flags of the best score.
Decide(mapping, best_score) ==
    IF best_score.auto_accept THEN [mapping EXCEPT !.status = "accepted"]
    ELSE IF best_score.needs_hitl THEN [mapping EXCEPT !.status = "hitl_required"]
    ELSE [mapping EXCEPT !.status = "rejected", !.canonical_field = None]

\* The scored path: score each proposal, select the best, decide.
ScoredMapping(column_profile, llm_response, now) ==
    LET proposals == llm_response.proposed_mappings
        scores == [i \in 1..Len(proposals) |->
                     _calculate_mapping_score(column_profile,
                         proposals[i].canonical_field, proposals[i].confidence)]
        b == BestProposal(scores)
        mapping == [ColumnMapping(column_profile.source_column, llm_response, now)
                      EXCEPT !.canonical_field = proposals[b].canonical_field,
                             !.mapping_score = <<scores[b]>>,
                             !.transform_rule = proposals[b].transform_hint]
    IN  Decide(mapping, scores[b])

\* A resolver that remembers the fields it accepted for earlier columns and
\* sends a later column proposed for one of them to review.
ResolveRememberingFields(column_profile, llm_response, now) ==
    IF llm_response.proposed_mappings = << >>
    THEN _heuristic_only_mapping(column_profile, llm_response, now)
    ELSE LET m == ScoredMapping(column_profile, llm_response, now) IN
         IF /\ m.status = "accepted"
            /\ \E k \in 1..Len(mappings) :
                 /\ mappings[k].status = "accepted"
                 /\ mappings[k].canonical_field = m.canonical_field
         THEN [m EXCEPT !.status = "hitl_required"]
         ELSE m

resolve_column_mapping(column_profile, llm_response, now) ==
    IF llm_response.proposed_mappings = << >>
    THEN _heuristic_only_mapping(column_profile, llm_response, now)
    ELSE ScoredMapping(column_profile, llm_response, now)

\* Whether resolve_column_mapping raises instead of returning.
ResolveRaises(llm_response) ==
    llm_response.proposed_mappings = << >> /\ HeuristicRaises

\* mapping == best_mapping: pydantic compares two models field by field.
MappingEq(a, b) == a = b

\* key of max() in _resolve_conflicts
ConflictKey(m) == IF m.mapping_score # << >> THEN m.mapping_score[1].final_score ELSE 0

Claims(m) == m.canonical_field # None /\ m.status # "rejected"

\* field_mappings[field]: the positions of its claimants, in list order.
FieldCandidates(ms, field) ==
    {j \in 1..Len(ms) : Claims(ms[j]) /\ ms[j].canonical_field = field}

\* A selection that takes the first claimant of the field, whatever its key.
FirstCandidate(ms, cands) == CHOOSE b \in cands : \A j \in cands : b <= j

\* max(field_candidates, key=...): the first candidate of maximal key.
BestCandidate(ms, cands) ==
    CHOOSE b \in cands :
        /\ \A j \in cands : ConflictKey(ms[j]) <= ConflictKey(ms[b])
        /\ \A j \in cands : j < b => ConflictKey(ms[j]) < ConflictKey(ms[b])

\* The mappings from position i on without the claimants that are not the
\* best of their field.
RECURSIVE WithoutLosers(_, _)
WithoutLosers(ms, i) ==
    IF i > Len(ms) THEN << >>
    ELSE LET cands == FieldCandidates(ms, ms[i].canonical_field)
             kept  == \/ ~Claims(ms[i])
                      \/ Cardinality(cands) <= 1
                      \/ i = BestCandidate(ms, cands)
         IN  (IF kept THEN <<ms[i]>> ELSE << >>) \o WithoutLosers(ms, i + 1)

\* A conflict resolution that keeps the best claimant and drops the others.
ResolveConflictsDropping(ms) == WithoutLosers(ms, 1)

\* A conflict resolution that also withdraws the field and the transform rule
\* of the claimants it demotes.
ResolveConflictsClearingField(ms) ==
    [ i \in 1..Len(ms) |->
        IF ~Claims(ms[i]) THEN ms[i]
        ELSE LET cands == FieldCandidates(ms, ms[i].canonical_field) IN
             IF Cardinality(cands) <= 1 THEN ms[i]
             ELSE LET best_mapping == ms[BestCandidate(ms, cands)] IN
                  IF MappingEq(ms[i], best_mapping) THEN ms[i]
                  ELSE [ms[i] EXCEPT
                          !.status = "hitl_required",
                          !.canonical_field = None,
                          !.transform_rule = None,
                          !.human_feedback =
                              <<"Conflict with", best_mapping.source_column.column>>] ]

\* A conflict resolution that demotes a losing claimant one step at a time:
\* accepted to hitl_required, hitl_required to rejected.
ResolveConflictsEscalating(ms) ==
    [ i \in 1..Len(ms) |->
        IF ~Claims(ms[i]) THEN ms[i]
        ELSE LET cands == FieldCandidates(ms, ms[i].canonical_field) IN
             IF Cardinality(cands) <= 1 THEN ms[i]
             ELSE LET best_mapping == ms[BestCandidate(ms, cands)] IN
                  IF MappingEq(ms[i], best_mapping) THEN ms[i]
                  ELSE [ms[i] EXCEPT
                          !.status = IF @ = "accepted" THEN "hitl_required"
                                     ELSE "rejected",
                          !.human_feedback =
                              <<"Conflict with", best_mapping.source_column.column>>] ]

_resolve_conflicts(ms) ==
    [ i \in 1..Len(ms) |->
        IF ~Claims(ms[i]) THEN ms[i]
        ELSE LET cands == FieldCandidates(ms, ms[i].canonical_field) IN
             IF Cardinality(cands) <= 1 THEN ms[i]
             ELSE LET best_mapping == ms[BestCandidate(ms, cands)] IN
                  IF MappingEq(ms[i], best_mapping) THEN ms[i]
                  ELSE [ms[i] EXCEPT
                          !.status = "hitl_required",
                          !.human_feedback =
                              <<"Conflict with", best_mapping.source_column.column>>] ]

(***************************************************************************)
(* resolve_batch_mappings as a state machine                               *)
(***************************************************************************)

\* datetime.utcnow() never reads less than before; two readings taken within
\* one tick of the system clock are equal.
ClockReadings == {clock, clock + 1} \ {0}

\* No profiler run is in progress.
ProfilerIdle ==
    /\ schema_columns = << >>
    /\ sample_files = [kind |-> "no_dir", data |-> << >>]
    /\ profiles = << >>
    /\ ppc = "idle"

\* No apply_mapping_plan call is in progress.
ExecutorIdle ==
    /\ mapping_plan = << >>
    /\ source_data = << >>
    /\ table_mappings = << >>
    /\ output_df = << >>
    /\ output_cells = << >>
    /\ lineage_records = << >>
    /\ errors = << >>
    /\ xpc = "idle"

\* No consumer has read a status yet.
ConsumerIdle == statuses_read = << >>

InitWith(settings) ==
    /\ cfg = settings
    /\ pc = "loop"
    /\ batch = << >>
    /\ responses = << >>
    /\ mappings = << >>
    /\ clock = 0
    /\ ProfilerIdle
    /\ ExecutorIdle
    /\ ConsumerIdle

Init == InitWith(DefaultSettings)

InitCfg == \E settings \in Configs : InitWith(settings)

\* One iteration of the loop: the next profile of column_profiles, the Proposal
\* Source call for it, resolve_column_mapping, append.  An exception leaves
\* resolve_batch_mappings.
ResolveNext ==
    /\ pc = "loop"
    /\ Len(batch) < MaxBatch
    /\ \E profile \in Profiles, outcome \in AdapterOutcomes, now \in ClockReadings :
         LET llm_response == map_column(outcome) IN
         /\ batch' = Append(batch, profile)
         /\ responses' = Append(responses, llm_response)
         /\ IF MapColumnRaises(outcome) \/ ResolveRaises(llm_response)
            THEN pc' = "raised" /\ UNCHANGED <<mappings, clock>>
            ELSE /\ mappings' = Append(mappings,
                                   resolve_column_mapping(profile, llm_response, now))
                 /\ clock' = now
                 /\ pc' = pc
    /\ UNCHANGED <<cfg, profiler_vars, executor_vars, consumer_vars>>

\* column_profiles is exhausted: conflict resolution, then return.
Return ==
    /\ pc = "loop"
    /\ mappings' = _resolve_conflicts(mappings)
    /\ pc' = "returned"
    /\ UNCHANGED <<cfg, batch, responses, clock, profiler_vars, executor_vars,
                   consumer_vars>>

Next == ResolveNext \/ Return

\* Longest batch of data-less columns handed to resolve_batch_mappings.
MaxEmptyBatch == 1

\* Columns of the tenant schema whose sample data hold no non-null value: each
\* gets the all-zero profile with type string.
EmptyProfiles ==
    {EmptyProfile(col) : col \in {"contract_id", "vendor_name", "auto_renew_flag", "cust_nm"}}

\* What the Proposal Source may answer for such a column: nothing, or one
\* proposal for any field, of the catalog or not, with low, middling or full
\* confidence.
EmptyColumnResponses ==
    {Proposed(<< >>)}
    \cup { Proposed(<<Proposal(field, confidence)>>) :
             field \in {get_schema_field_names[k] : k \in DOMAIN get_schema_field_names}
                       \cup {"unknown_field"},
             confidence \in {0, 60, 100} }

\* One iteration of the loop of resolve_batch_mappings on a data-less column.
ResolveEmptyColumn ==
    /\ pc = "loop"
    /\ Len(batch) < MaxEmptyBatch
    /\ \E profile \in EmptyProfiles, llm_response \in EmptyColumnResponses,
          now \in ClockReadings :
         /\ batch' = Append(batch, profile)
         /\ responses' = Append(responses, llm_response)
         /\ IF ResolveRaises(llm_response)
            THEN pc' = "raised" /\ UNCHANGED <<mappings, clock>>
            ELSE /\ mappings' = Append(mappings,
                                   resolve_column_mapping(profile, llm_response, now))
                 /\ clock' = now
                 /\ pc' = pc
    /\ UNCHANGED <<cfg, profiler_vars, executor_vars, consumer_vars>>

NextEmpty == ResolveEmptyColumn \/ Return

\* Batches of data-less columns under the default settings.
SpecEmpty == Init /\ [][NextEmpty]_vars

\* Longest batch of columns proposed for fields outside the catalog.
MaxUnlistedBatch == 1

\* A column of ISO dates named after a field the catalog does not list.
ExpiryDateProfile ==
    [ source_column    |-> SourceColumn("expiry_date"),
      non_null_count   |-> 1,
      distinct_ratio   |-> 100,
      sample_values    |-> <<"2024-01-15">>,
      inferred_type    |-> "date",
      date_patterns    |-> <<"YYYY-MM-DD">>,
      currency_symbols |-> << >> ]

\* Answers of the Proposal Source that name a field the catalog does not
\* list: a made-up name, or one of the two derived fields its prompt always
\* describes.
UnlistedFieldResponses ==
    { Proposed(<<Proposal(field, confidence)>>) :
          field \in {"unknown_field", "expiry_date", "contract_value_arr"},
          confidence \in {0, 40, 60, 100} }

\* One iteration of the loop of resolve_batch_mappings on a column proposed
\* for a field outside the catalog.
ResolveUnlistedField ==
    /\ pc = "loop"
    /\ Len(batch) < MaxUnlistedBatch
    /\ \E profile \in Profiles \cup {ExpiryDateProfile},
          llm_response \in UnlistedFieldResponses, now \in ClockReadings :
         /\ batch' = Append(batch, profile)
         /\ responses' = Append(responses, llm_response)
         /\ mappings' = Append(mappings,
                               resolve_column_mapping(profile, llm_response, now))
         /\ clock' = now
    /\ UNCHANGED <<cfg, pc, profiler_vars, executor_vars, consumer_vars>>

NextUnlisted == ResolveUnlistedField \/ Return

\* Batches of columns proposed for unlisted fields, under the default settings.
SpecUnlisted == Init /\ [][NextUnlisted]_vars

(***************************************************************************)
(* profile_tenant_columns and profile_column as a state machine            *)
(***************************************************************************)

\* Most columns of the table in the tenant schema.
MaxColumns == 2

\* Column names of the schema, in schema order.
ColumnNames == <<"contract_id", "vendor_name", "auto_renew_flag", "cust_nm">>

\* The DataFrames a sample file can hold: some columns, each with its cells.
Frames(columns) == UNION {[present -> SampleColumns] : present \in SUBSET columns}

\* What _load_sample_data finds for the table: no tenant directory; a
\* directory without any CSV file; the table's own file; no file of the
\* table's name but another CSV file in the directory, which it then reads.
SampleFiles(columns) ==
    {[kind |-> k, data |-> << >>] : k \in {"no_dir", "no_csv"}}
    \cup {[kind |-> k, data |-> d] : k \in {"own_csv", "other_csv"}, d \in Frames(columns)}

\* _load_sample_data raises FileNotFoundError.
LoadSampleDataRaises(files) == files.kind \in {"no_dir", "no_csv"}

\* The except branch of profile_tenant_columns: an empty profile for every
\* column of the table.
EmptyProfilesFor(columns) == [k \in 1..Len(columns) |-> EmptyProfile(columns[k])]

\* The lists list(symbols) can be for a column of the loaded data.
CurrencySymbolLists(column, sample_data) ==
    IF column \in DOMAIN sample_data
    THEN ListsOf(_detect_currency_symbols(sample_data[column]))
    ELSE {<< >>}

InitProfiler ==
    /\ cfg = DefaultSettings
    /\ pc = "idle"
    /\ batch = << >>
    /\ responses = << >>
    /\ mappings = << >>
    /\ clock = 0
    /\ \E n \in 1..MaxColumns :
         /\ schema_columns = SubSeq(ColumnNames, 1, n)
         /\ sample_files \in SampleFiles(Range(SubSeq(ColumnNames, 1, n)))
    /\ profiles = << >>
    /\ ppc = "start"
    /\ ExecutorIdle
    /\ ConsumerIdle

\* profile_tenant_columns enters the try block of the table and calls
\* _load_sample_data.
LoadSampleData ==
    /\ ppc = "start"
    /\ IF LoadSampleDataRaises(sample_files)
       THEN /\ profiles' = profiles \o EmptyProfilesFor(schema_columns)
            /\ ppc' = "done"
       ELSE /\ ppc' = "columns"
            /\ UNCHANGED profiles
    /\ UNCHANGED <<resolver_vars, executor_vars, schema_columns, sample_files,
                   consumer_vars>>

\* One iteration of the loop over the table's columns inside the try block.
\* An exception of profile_column leaves the loop for the except branch.
ProfileNextColumn ==
    /\ ppc = "columns"
    /\ LET column == schema_columns[Len(profiles) + 1] IN
       IF ProfileColumnRaises(column, sample_files.data)
       THEN /\ profiles' = profiles \o EmptyProfilesFor(schema_columns)
            /\ ppc' = "done"
       ELSE /\ \E currency_symbols \in CurrencySymbolLists(column, sample_files.data) :
                 profiles' = Append(profiles,
                     profile_column(column, sample_files.data, currency_symbols))
            /\ ppc' = IF Len(profiles) + 1 = Len(schema_columns) THEN "done" ELSE "columns"
    /\ UNCHANGED <<resolver_vars, executor_vars, schema_columns, sample_files,
                   consumer_vars>>

\* profile_column(source_column) called without sample_data: it loads the
\* data itself, outside any try block.
ProfileColumnAlone ==
    /\ ppc = "start"
    /\ \E k \in 1..Len(schema_columns) :
         LET column == schema_columns[k] IN
         IF \/ LoadSampleDataRaises(sample_files)
            \/ ProfileColumnRaises(column, sample_files.data)
         THEN /\ ppc' = "raised"
              /\ UNCHANGED profiles
         ELSE /\ \E currency_symbols \in CurrencySymbolLists(column, sample_files.data) :
                   profiles' = <<profile_column(column, sample_files.data, currency_symbols)>>
              /\ ppc' = "profiled"
    /\ UNCHANGED <<resolver_vars, executor_vars, schema_columns, sample_files,
                   consumer_vars>>

NextProfiler == LoadSampleData \/ ProfileNextColumn \/ ProfileColumnAlone

SpecProfiler == InitProfiler /\ [][NextProfiler]_vars

(***************************************************************************)
(* Transform Executor: DataTransformer.apply_mapping_plan                  *)
(*                                                                         *)
(* A DataFrame is modelled by its columns.  A source table maps each       *)
(* column name to its cells; the output frame maps each canonical field to *)
(* the set of source columns whose transformed cells fill it (the empty    *)
(* set for a column computed from other output columns).                   *)
(***************************************************************************)

\* Longest mapping plan handed to apply_mapping_plan.
MaxPlan == 2

\* A ColumnMapping as a stored MappingPlan holds it.
PlanMapping(table, column, canonical_field, status, transform_rule, mapping_score) ==
    [ ColumnMapping([tenant |-> "tenant_A", table |-> table, column |-> column],
                    << >>, 0)
      EXCEPT !.canonical_field = canonical_field,
             !.status          = status,
             !.transform_rule  = transform_rule,
             !.mapping_score   = mapping_score ]

\* The MappingScore of a mapping the resolver accepted.
PlanScore ==
    [ llm_confidence     |-> 100,
      name_similarity    |-> 80,
      type_compatibility |-> 100,
      value_range_match  |-> 80,
      final_score        |-> 9200,
      auto_accept        |-> TRUE,
      needs_hitl         |-> FALSE ]

\* transform_rule values of the plans explored.
DateFormatRule == "parse_date(format='%Y-%m-%d')"

\* The mappings plans are built from: every status, with and without a
\* canonical field, a column and a table the data lacks, and a date column
\* with a cell dateutil overflows on.
PlanMappings ==
    { PlanMapping("contracts", "total_value", "contract_value_ltv", "accepted", None, <<PlanScore>>),
      PlanMapping("contracts", "term_months", "renewal_term_months", "accepted", None, << >>),
      PlanMapping("contracts", "contract_no", "contract_id", "hitl_required", None, <<PlanScore>>),
      PlanMapping("contracts", "contract_no", "contract_id", "rejected", None, << >>),
      PlanMapping("contracts", "arr_value", "contract_value_arr", "pending", None, << >>),
      PlanMapping("contracts", "arr_value", "contract_value_arr", "accepted", None, << >>),
      PlanMapping("contracts", "contract_no", None, "accepted", None, << >>),
      PlanMapping("contracts", "contract_no", "contract_id", "accepted", None, <<PlanScore>>),
      PlanMapping("contracts", "ghost", "contract_id", "accepted", None, <<PlanScore>>),
      PlanMapping("invoices", "amount", "contract_value_ltv", "accepted", None, <<PlanScore>>),
      PlanMapping("contracts", "start_dt", "effective_date", "accepted", None, <<PlanScore>>),
      PlanMapping("contracts", "start_dt", "effective_date", "accepted", DateFormatRule, <<PlanScore>>),
      PlanMapping("contracts", "signed_dt", "effective_date", "accepted", None, <<PlanScore>>),
      PlanMapping("contracts", "state", "status", "accepted", None, <<PlanScore>>),
      PlanMapping("contracts", "kind", "contract_type", "accepted", None, <<PlanScore>>),
      PlanMapping("contracts", "renews", "auto_renew", "accepted", None, <<PlanScore>>) }

MappingPlans == UNION { [1..n -> PlanMappings] : n \in 1..MaxPlan }

\* The cells of a source table, as str() shows them; None is a missing cell.
ContractsTable ==
    [ contract_no |-> <<" CNT-001 ", "CNT-002", "CNT-003", "CNT-004">>,
      total_value |-> <<"$1,200.00", "$200.50", "n/a", "$600.00">>,
      term_months |-> <<"12", "0", "24", None>>,
      arr_value   |-> <<"$50.00", "$100.25", "1.2.3", None>>,
      start_dt    |-> <<"2023-01-01", BigNumber, "2023-02-01", None>>,
      signed_dt   |-> <<"2023-01-01", "not a date", "2023-03-01", None>>,
      state       |-> <<"active", "live", "bogus", None>>,
      kind        |-> <<"msa", "weird", "msa v2", None>>,
      renews      |-> <<"yes", "maybe", "0", None>> ]

InvoicesTable == [ amount |-> <<"$100.00">> ]

\* The source_data dictionaries explored.
SourceData ==
    { [contracts |-> ContractsTable],
      [invoices |-> InvoicesTable],
      [contracts |-> ContractsTable, invoices |-> InvoicesTable] }

\* Python truth value of an Optional[str].
Truthy(text) == text \notin {None, ""}

\* The dict a grouping pass builds from the mappings it keeps: one entry per
\* table, in the order the tables first appear.
GroupByTable(kept) ==
    LET tables == unique([i \in 1..Len(kept) |-> kept[i].source_column.table])
    IN  [t \in 1..Len(tables) |->
            [ table    |-> tables[t],
              mappings |-> SelectSeq(kept,
                              LAMBDA m : m.source_column.table = tables[t]) ]]

\* A grouping that keeps every mapping with a canonical field, whatever its
\* status.
GroupMappingsIgnoringStatus(plan_mappings) ==
    GroupByTable(SelectSeq(plan_mappings, LAMBDA m : Truthy(m.canonical_field)))

_group_mappings_by_table(plan_mappings) ==
    GroupByTable(SelectSeq(plan_mappings,
        LAMBDA m : m.status = "accepted" /\ Truthy(m.canonical_field)))

\* Substring tests of _apply_transform_rule on the rules explored.
RulesWithParseDate == {DateFormatRule}

RulesWithParseCurrency == {}

RulesWithDateArithmetic == {}

\* Rules whose format='...' group matches: _transform_date then parses with
\* datetime.strptime instead of dateutil.
RulesWithFormat == {DateFormatRule}

\* A transformed cell is << >> for None, or <<type, v>> for a value v of the
\* Python type named: "str", "date" (written as ISO text), "Decimal" (in
\* hundredths), "bool", "int".

\* str.strip() on the cell texts of the tables.
Strip(v) == IF v = " CNT-001 " THEN "CNT-001" ELSE v

\* Series.astype(str).str.strip(): a missing cell becomes the text 'nan'.
_transform_string(series) ==
    [i \in DOMAIN series |-> IF series[i] = None THEN <<"str", "nan">>
                            ELSE <<"str", Strip(series[i])>>]

\* The format the model's rules name, and the texts strptime accepts under it.
IsoFormat == "%Y-%m-%d"

StrptimeAccepts == {"2023-01-01", "2023-02-01", "2023-03-01", "2024-01-15"}

\* .date() of what the date parsers return.
DateValue(text) ==
    CASE text \in {"01/01/2023", "2023-01-01T10:00:00"} -> "2023-01-01"
      [] text \in {"02/01/2023", "2023-02-01T10:00:00"} -> "2023-02-01"
      [] text = "03/01/2023" -> "2023-03-01"
      [] OTHER -> text

\* parse_date of _transform_date; ValueError and TypeError give None.
parse_date(value, date_format) ==
    IF value = None THEN << >>
    ELSE IF date_format # None
    THEN IF value \in StrptimeAccepts THEN <<"date", DateValue(value)>> ELSE << >>
    ELSE IF value \in DateParserAccepts THEN <<"date", DateValue(value)>> ELSE << >>

_transform_date(series, date_format) ==
    [i \in DOMAIN series |-> parse_date(series[i], date_format)]

\* Decimal(re.sub(r'[^\d.-]', '', text)) in hundredths, for the texts whose
\* cleaned form is a decimal literal.  On the other texts of the columns
\* mapped to a currency field the cleaned form is empty ("n/a") or
\* Decimal raises InvalidOperation ("1.2.3").
DecimalOf ==
    [ text \in {"$1,200.00", "$200.50", "$600.00", "$50.00", "$100.25", "$100.00"} |->
        CASE text = "$1,200.00" -> 120000
          [] text = "$200.50"   -> 20050
          [] text = "$600.00"   -> 60000
          [] text = "$50.00"    -> 5000
          [] text = "$100.25"   -> 10025
          [] text = "$100.00"   -> 10000 ]

\* parse_currency of _transform_currency.
parse_currency(value) ==
    IF value = None THEN << >>
    ELSE IF value \in DOMAIN DecimalOf THEN <<"Decimal", DecimalOf[value]>> ELSE << >>

_transform_currency(series) == [i \in DOMAIN series |-> parse_currency(series[i])]

\* parse_boolean of _transform_boolean.
parse_boolean(value) ==
    IF value = None THEN << >>
    ELSE LET str_value == Strip(Lower(value)) IN
         IF str_value \in {"true", "1", "yes", "t", "y"} THEN <<"bool", TRUE>>
         ELSE IF str_value \in {"false", "0", "no", "f", "n"} THEN <<"bool", FALSE>>
         ELSE << >>

_transform_boolean(series) == [i \in DOMAIN series |-> parse_boolean(series[i])]

\* int(float(text)) for the texts it accepts; ValueError gives None.
IntegerOf ==
    [ text \in {"12", "0", "24"} |->
        CASE text = "12" -> 12 [] text = "0" -> 0 [] text = "24" -> 24 ]

\* parse_integer of _transform_integer.
parse_integer(value) ==
    IF value = None THEN << >>
    ELSE IF value \in DOMAIN IntegerOf THEN <<"int", IntegerOf[value]>> ELSE << >>

_transform_integer(series) == [i \in DOMAIN series |-> parse_integer(series[i])]

\* enum_mappings of _transform_enum, each dict in its insertion order.
enum_mappings(canonical_field) ==
    IF canonical_field = "status"
    THEN << <<"draft", "DRAFT">>, <<"active", "ACTIVE">>, <<"live", "ACTIVE">>,
            <<"suspended", "SUSPENDED">>, <<"paused", "SUSPENDED">>,
            <<"terminated", "TERMINATED">>, <<"cancelled", "TERMINATED">>,
            <<"expired", "EXPIRED">>, <<"ended", "EXPIRED">> >>
    ELSE IF canonical_field = "contract_type"
    THEN << <<"msa", "MSA">>, <<"master service agreement", "MSA">>,
            <<"nda", "NDA">>, <<"non disclosure agreement", "NDA">>,
            <<"sow", "SOW">>, <<"statement of work", "SOW">>,
            <<"order form", "ORDER_FORM">>, <<"purchase order", "ORDER_FORM">>,
            <<"other", "OTHER">> >>
    ELSE << >>

\* The pairs <<key, text>>, over the keys above and the cell texts of the
\* tables, with key in text or text in key, key # text.
PartialMatches == {<<"msa", "msa v2">>}

\* map_enum of _transform_enum.
map_enum(value, canonical_field) ==
    IF value = None THEN << >>
    ELSE
    LET str_value == Strip(Lower(value))
        mapping   == enum_mappings(canonical_field)
        direct    == {k \in DOMAIN mapping : mapping[k][1] = str_value}
        partial   == {k \in DOMAIN mapping : <<mapping[k][1], str_value>> \in PartialMatches}
    IN  IF direct # {} THEN <<"str", mapping[CHOOSE k \in direct : TRUE][2]>>
        ELSE IF partial # {}
        THEN <<"str", mapping[CHOOSE k \in partial : \A j \in partial : k <= j][2]>>
        ELSE IF canonical_field = "contract_type" THEN <<"str", "OTHER">>
        ELSE << >>

_transform_enum(series, canonical_field) ==
    [i \in DOMAIN series |-> map_enum(series[i], canonical_field)]

\* _apply_date_arithmetic: neither rule of the model names the columns it
\* looks for, so it returns a column of None as long as the table.
_apply_date_arithmetic(series) == [i \in DOMAIN series |-> << >>]

\* The pair (values, transform_applied) of _apply_transform_rule.
_apply_transform_rule(source_series, transform_rule) ==
    IF transform_rule \in RulesWithParseDate
    THEN [ values |-> _transform_date(source_series,
                          IF transform_rule \in RulesWithFormat THEN IsoFormat ELSE None),
           transform_applied |-> "custom_date_parse: " \o transform_rule ]
    ELSE IF transform_rule \in RulesWithParseCurrency
    THEN [ values |-> _transform_currency(source_series),
           transform_applied |-> "custom_currency_parse: " \o transform_rule ]
    ELSE IF transform_rule \in RulesWithDateArithmetic
    THEN [ values |-> _apply_date_arithmetic(source_series),
           transform_applied |-> "date_arithmetic: " \o transform_rule ]
    ELSE [ values |-> _transform_string(source_series),
           transform_applied |-> "unknown_rule: " \o transform_rule ]

\* The pair (values, transform_applied) of _transform_column.
_transform_column(source_series, canonical_field, transform_rule) ==
    IF Truthy(transform_rule)
    THEN _apply_transform_rule(source_series, transform_rule)
    ELSE IF canonical_field \in {"contract_id", "party_buyer", "party_seller",
                                 "governing_law", "jurisdiction"}
    THEN [ values |-> _transform_string(source_series),
           transform_applied |-> "string_normalization" ]
    ELSE IF canonical_field \in {"effective_date", "expiry_date"}
    THEN [ values |-> _transform_date(source_series, None),
           transform_applied |-> "date_parsing" ]
    ELSE IF canonical_field \in {"contract_value_ltv", "contract_value_arr"}
    THEN [ values |-> _transform_currency(source_series),
           transform_applied |-> "currency_normalization" ]
    ELSE IF canonical_field = "auto_renew"
    THEN [ values |-> _transform_boolean(source_series),
           transform_applied |-> "boolean_conversion" ]
    ELSE IF canonical_field = "renewal_term_months"
    THEN [ values |-> _transform_integer(source_series),
           transform_applied |-> "integer_conversion" ]
    ELSE IF canonical_field \in {"status", "contract_type"}
    THEN [ values |-> _transform_enum(source_series, canonical_field),
           transform_applied |-> "enum_normalization" ]
    ELSE [ values |-> _transform_string(source_series),
           transform_applied |-> "default_string" ]

\* _transform_date without a format calls date_parser.parse on every
\* non-null cell and catches ValueError and TypeError only.
TransformColumnRaises(source_series, canonical_field, transform_rule) ==
    /\ IF Truthy(transform_rule)
       THEN transform_rule \in RulesWithParseDate \ RulesWithFormat
       ELSE canonical_field \in {"effective_date", "expiry_date"}
    /\ \E v \in Range(dropna(source_series)) : v \in DateParserOverflows

LineageRecord(output_field, source_columns, transform_applied, confidence_score) ==
    [ output_field      |-> output_field,
      source_columns    |-> source_columns,
      transform_applied |-> transform_applied,
      prompt_version    |-> "v1",
      confidence_score  |-> confidence_score ]

\* df[field] = values: the column is created or replaced.
SetColumn(df, field, sources) ==
    [f \in DOMAIN df \cup {field} |-> IF f = field THEN sources ELSE df[f]]

\* The loop of _transform_table from mapping i on.
RECURSIVE TransformTableFrom(_, _, _, _)
TransformTableFrom(source_df, table_mapping_list, i, acc) ==
    IF i > Len(table_mapping_list) THEN acc
    ELSE
    LET mapping         == table_mapping_list[i]
        source_col      == mapping.source_column.column
        canonical_field == mapping.canonical_field
    IN  IF source_col \notin DOMAIN source_df
        THEN TransformTableFrom(source_df, table_mapping_list, i + 1,
                 [acc EXCEPT !.errors = Append(@,
                     [error |-> "source column not found", column |-> source_col])])
        ELSE IF TransformColumnRaises(source_df[source_col], canonical_field,
                                      mapping.transform_rule)
        THEN TransformTableFrom(source_df, table_mapping_list, i + 1,
                 [acc EXCEPT !.errors = Append(@,
                     [error |-> "failed to transform", column |-> source_col])])
        ELSE LET transformed == _transform_column(source_df[source_col],
                                        canonical_field, mapping.transform_rule)
             IN
             TransformTableFrom(source_df, table_mapping_list, i + 1,
                 [acc EXCEPT
                    !.output_df = SetColumn(@, canonical_field, {mapping.source_column}),
                    !.output_cells = SetColumn(@, canonical_field, transformed.values),
                    !.lineage_records = Append(@,
                        LineageRecord(canonical_field, <<mapping.source_column>>,
                            transformed.transform_applied,
                            IF mapping.mapping_score # << >>
                            THEN mapping.mapping_score[1].final_score ELSE 0))])

_transform_table(source_df, table_mapping_list) ==
    TransformTableFrom(source_df, table_mapping_list, 1,
        [output_df |-> << >>, output_cells |-> << >>,
         lineage_records |-> << >>, errors |-> << >>])

\* pd.concat of two frames: the columns of both, rows appended.
_merge_table_data(existing_df, new_df) ==
    [f \in DOMAIN existing_df \cup DOMAIN new_df |->
        (IF f \in DOMAIN existing_df THEN existing_df[f] ELSE {})
        \cup (IF f \in DOMAIN new_df THEN new_df[f] ELSE {})]

\* Number of rows of a frame given by the cells of its columns.
NumRows(cells) ==
    IF DOMAIN cells = {} THEN 0 ELSE Len(cells[CHOOSE f \in DOMAIN cells : TRUE])

\* A column of n missing cells.
Missing(n) == [i \in 1..n |-> << >>]

\* pd.concat on the cells: the rows of new_df follow those of existing_df,
\* and a column one frame lacks is missing in that frame's rows.
ConcatCells(existing, new) ==
    [f \in DOMAIN existing \cup DOMAIN new |->
        (IF f \in DOMAIN existing THEN existing[f] ELSE Missing(NumRows(existing)))
        \o (IF f \in DOMAIN new THEN new[f] ELSE Missing(NumRows(new)))]

\* ltv / (term_months / 12) raises TypeError: term_months / 12 is a float
\* when the term is an int (and raises itself when it is a str or a date),
\* and neither a Decimal, nor a str, nor a date can be divided by a float.
DivisionRaises(ltv, term_months) ==
    \/ term_months[1] # "int"
    \/ ltv[1] \in {"Decimal", "str", "date"}

\* calc_arr of _apply_derived_fields on one row.  The TypeError of the
\* division is caught and gives None.
calc_arr(ltv, term_months) ==
    IF ltv = << >> \/ term_months = << >> THEN << >>
    ELSE IF term_months[1] = "int" /\ term_months[2] = 0 THEN << >>
    ELSE IF DivisionRaises(ltv, term_months) THEN << >>
    ELSE <<"float", (ltv[2] * 12) \div term_months[2]>>

\* Whether _apply_derived_fields adds contract_value_arr to df.
DerivesArr(df) ==
    /\ "contract_value_ltv" \in DOMAIN df
    /\ "renewal_term_months" \in DOMAIN df
    /\ "contract_value_arr" \notin DOMAIN df

\* confidence_score of the lineage record of a derived field, in
\* ten-thousandths.
DerivedConfidence == 10000

InitExecutor ==
    /\ cfg = DefaultSettings
    /\ pc = "idle"
    /\ batch = << >>
    /\ responses = << >>
    /\ mappings = << >>
    /\ clock = 0
    /\ ProfilerIdle
    /\ ConsumerIdle
    /\ mapping_plan \in MappingPlans
    /\ source_data \in SourceData
    /\ table_mappings = << >>
    /\ output_df = << >>
    /\ output_cells = << >>
    /\ lineage_records = << >>
    /\ errors = << >>
    /\ xpc = "start"

\* apply_mapping_plan up to the loop over table_mappings.
GroupMappings ==
    /\ xpc = "start"
    /\ table_mappings' = _group_mappings_by_table(mapping_plan)
    /\ xpc' = "tables"
    /\ UNCHANGED <<resolver_vars, profiler_vars, mapping_plan, source_data,
                   output_df, output_cells, lineage_records, errors,
                   consumer_vars>>

\* One iteration of the loop over table_mappings.  _transform_table catches
\* what its transforms raise, so the except branch around it is never taken.
TransformNextTable ==
    /\ xpc = "tables"
    /\ table_mappings # << >>
    /\ LET table_name == Head(table_mappings).table IN
       IF table_name \notin DOMAIN source_data
       THEN UNCHANGED <<output_df, output_cells, lineage_records, errors>>
       ELSE LET result == _transform_table(source_data[table_name],
                                           Head(table_mappings).mappings)
            IN  /\ output_df' =
                     IF DOMAIN result.output_df = {} THEN output_df
                     ELSE IF DOMAIN output_df = {} THEN result.output_df
                     ELSE _merge_table_data(output_df, result.output_df)
                /\ output_cells' =
                     IF DOMAIN result.output_df = {} THEN output_cells
                     ELSE IF DOMAIN output_df = {} THEN result.output_cells
                     ELSE ConcatCells(output_cells, result.output_cells)
                /\ lineage_records' = lineage_records \o result.lineage_records
                /\ errors' = errors \o result.errors
    /\ table_mappings' = Tail(table_mappings)
    /\ UNCHANGED <<resolver_vars, profiler_vars, mapping_plan, source_data, xpc,
                   consumer_vars>>

\* After the loop: _apply_derived_fields, _save_output and the return.
ApplyDerivedFields ==
    /\ xpc = "tables"
    /\ table_mappings = << >>
    /\ IF DerivesArr(output_df)
       THEN /\ output_df' = SetColumn(output_df, "contract_value_arr", {})
            /\ output_cells' = SetColumn(output_cells, "contract_value_arr",
                   [i \in 1..NumRows(output_cells) |->
                       calc_arr(output_cells["contract_value_ltv"][i],
                                output_cells["renewal_term_months"][i])])
            /\ lineage_records' = Append(lineage_records,
                   LineageRecord("contract_value_arr", << >>,
                       "derived: contract_value_ltv / (renewal_term_months / 12)",
                       DerivedConfidence))
       ELSE UNCHANGED <<output_df, output_cells, lineage_records>>
    /\ xpc' = "done"
    /\ UNCHANGED <<resolver_vars, profiler_vars, mapping_plan, source_data,
                   table_mappings, errors, consumer_vars>>

NextExecutor == GroupMappings \/ TransformNextTable \/ ApplyDerivedFields

SpecExecutor == InitExecutor /\ [][NextExecutor]_vars

Spec == Init /\ [][Next]_vars

SpecCfg == InitCfg /\ [][Next]_vars

(***************************************************************************)
(* Properties                                                              *)
(***************************************************************************)

Returned == pc = "returned"

Accepted(m) == m.status = "accepted"

\* C1: after resolve_batch_mappings returns, at most one returned
\* ColumnMapping per canonical_field has status accepted.
C1_AtMostOneAcceptedPerField ==
    Returned =>
        \A i, j \in 1..Len(mappings) :
            ( /\ Accepted(mappings[i]) /\ Accepted(mappings[j])
              /\ mappings[i].canonical_field = mappings[j].canonical_field )
            => i = j

\* A position whose mapping lost a conflict: conflict resolution left its note.
Demoted(m) == m.human_feedback # << >>

C3_NoProposalNeverAccepted ==
    \A i \in 1..Len(mappings) :
        responses[i].proposed_mappings = << >>
        => mappings[i].status \in {"rejected", "hitl_required"}

\* A returned batch in which a column without proposals holds a field by
\* heuristics and went through a conflict on that field.
C3_Witness ==
    /\ Returned
    /\ \E i, j \in 1..Len(mappings) :
         /\ i # j
         /\ responses[i].proposed_mappings = << >>
         /\ mappings[i].canonical_field # None
         /\ mappings[j].canonical_field = mappings[i].canonical_field
         /\ Accepted(mappings[j])

\* The scores resolve_column_mapping computes for the proposals of column i.
ProposalScores(i) ==
    [k \in 1..Len(responses[i].proposed_mappings) |->
        _calculate_mapping_score(batch[i],
            responses[i].proposed_mappings[k].canonical_field,
            responses[i].proposed_mappings[k].confidence)]

\* The threshold band of a final_score, for hitl_threshold <= auto_accept_threshold.
Band(final_score) ==
    IF final_score >= 100 * cfg.auto_accept_threshold THEN "accepted"
    ELSE IF final_score >= 100 * cfg.hitl_threshold THEN "hitl_required"
    ELSE "rejected"

\* The three bands as the decision policy states them.
InBand(status, final_score) ==
    /\ final_score >= 100 * cfg.auto_accept_threshold => status = "accepted"
    /\ ( /\ 100 * cfg.hitl_threshold <= final_score
         /\ final_score < 100 * cfg.auto_accept_threshold ) => status = "hitl_required"
    /\ final_score < 100 * cfg.hitl_threshold => status = "rejected"

\* C4: with at least one candidate, and thresholds hitl_threshold <=
\* auto_accept_threshold, resolve_column_mapping keeps the score of the
\* candidate of maximal final_score (the first one on ties), takes the status
\* from the band of that score (a score equal to a threshold is in the higher
\* band), and clears canonical_field when it rejects.
C4_MaxScoreThenThresholds ==
    (pc = "loop" /\ cfg.hitl_threshold <= cfg.auto_accept_threshold) =>
        \A i \in 1..Len(mappings) :
            responses[i].proposed_mappings # << >> =>
                LET props  == responses[i].proposed_mappings
                    scores == ProposalScores(i)
                    m      == mappings[i]
                IN  \E k \in 1..Len(props) :
                      /\ \A j \in 1..Len(props) :
                           scores[j].final_score <= scores[k].final_score
                      /\ \A j \in 1..(k - 1) :
                           scores[j].final_score < scores[k].final_score
                      /\ m.mapping_score = <<scores[k]>>
                      /\ InBand(m.status, scores[k].final_score)
                      /\ m.canonical_field =
                           IF m.status = "rejected" THEN None
                           ELSE props[k].canonical_field

\* A column with two candidates of equal final_score, equal to the auto-accept
\* threshold: the first is chosen and accepted.
C4_Witness ==
    /\ pc = "loop"
    /\ \E i \in 1..Len(mappings) :
         /\ Len(responses[i].proposed_mappings) = 2
         /\ ProposalScores(i)[1].final_score = ProposalScores(i)[2].final_score
         /\ ProposalScores(i)[1].final_score = 100 * cfg.auto_accept_threshold
         /\ mappings[i].canonical_field = responses[i].proposed_mappings[1].canonical_field
         /\ Accepted(mappings[i])

\* The status the single-column policy gave a mapping.
PolicyStatus(m) ==
    IF m.mapping_score = << >> THEN "hitl_required"
    ELSE Band(m.mapping_score[1].final_score)

\* The non-rejected claimants of a field among the returned mappings.
Claimants(field) ==
    {i \in 1..Len(mappings) :
        mappings[i].canonical_field = field /\ mappings[i].status # "rejected"}

\* Position w holds a highest final_score among the positions of cands.
HighestScore(w, cands) ==
    \A o \in cands :
        mappings[o].mapping_score # << >>
        => /\ mappings[w].mapping_score # << >>
           /\ mappings[o].mapping_score[1].final_score
                <= mappings[w].mapping_score[1].final_score

\* C5: for every canonical field claimed by more than one non-rejected
\* mapping there is a single winner, a claimant of highest final_score that
\* keeps the status the threshold policy gave it; every other claimant ends
\* hitl_required with a note naming the winner's column, and keeps its field.
C5_SingleWinnerOthersDemoted ==
    Returned =>
        \A i \in 1..Len(mappings) :
            LET cands == Claimants(mappings[i].canonical_field) IN
            (mappings[i].canonical_field # None /\ Cardinality(cands) > 1) =>
                \E w \in cands :
                    /\ HighestScore(w, cands)
                    /\ ~Demoted(mappings[w])
                    /\ mappings[w].status = PolicyStatus(mappings[w])
                    /\ \A o \in cands \ {w} :
                         /\ mappings[o].status = "hitl_required"
                         /\ mappings[o].human_feedback =
                              <<"Conflict with", mappings[w].source_column.column>>

SourceFailed(i) == responses[i].reasoning = "Error occurred during mapping"

C7_ScoreBounds ==
    \A i \in 1..Len(mappings) :
        mappings[i].mapping_score # << >> =>
            LET sc == mappings[i].mapping_score[1] IN
            /\ sc.llm_confidence \in 0..100
            /\ sc.name_similarity \in 0..100
            /\ sc.type_compatibility \in 0..100
            /\ sc.value_range_match \in 0..100
            /\ sc.final_score = cfg.weight_llm * sc.llm_confidence
                                + cfg.weight_name * sc.name_similarity
                                + cfg.weight_type * sc.type_compatibility
                                + cfg.weight_profile * sc.value_range_match
            /\ sc.final_score \in 0..10000

\* Order of the decisions: rejected < hitl_required < accepted.
Rank(status) ==
    CASE status = "rejected" -> 0
      [] status = "hitl_required" -> 1
      [] status = "accepted" -> 2

SingleProposal(i) == Len(responses[i].proposed_mappings) = 1

\* Columns i and j have the same profile and one candidate each, for the same
\* field, j's with at least i's llm_confidence.
RaisedConfidence(i, j) ==
    /\ batch[i] = batch[j]
    /\ SingleProposal(i) /\ SingleProposal(j)
    /\ responses[i].proposed_mappings[1].canonical_field
         = responses[j].proposed_mappings[1].canonical_field
    /\ responses[i].proposed_mappings[1].confidence
         <= responses[j].proposed_mappings[1].confidence

\* C8: for a fixed profile and candidate field, a higher llm_confidence never
\* gives a lower final_score nor a lower single-column decision.
C8_ConfidenceMonotone ==
    pc = "loop" =>
        \A i, j \in 1..Len(mappings) :
            RaisedConfidence(i, j) =>
                /\ mappings[i].mapping_score[1].final_score
                     <= mappings[j].mapping_score[1].final_score
                /\ Rank(mappings[i].status) <= Rank(mappings[j].status)

\* The same column resolved with a lower and a higher confidence for one
\* field: hitl_required with the lower, accepted with the higher.
C8_Witness ==
    /\ pc = "loop"
    /\ \E i, j \in 1..Len(mappings) :
         /\ RaisedConfidence(i, j)
         /\ responses[i].proposed_mappings[1].confidence
              < responses[j].proposed_mappings[1].confidence
         /\ mappings[i].status = "hitl_required"
         /\ Accepted(mappings[j])

C10_FlagsExclusiveRejectedHasNoField ==
    \A i \in 1..Len(mappings) :
        /\ LET scores == ProposalScores(i) IN
           \A k \in 1..Len(scores) : ~(scores[k].auto_accept /\ scores[k].needs_hitl)
        /\ mappings[i].mapping_score # << >> =>
             ~(mappings[i].mapping_score[1].auto_accept
               /\ mappings[i].mapping_score[1].needs_hitl)
        /\ mappings[i].status = "rejected" => mappings[i].canonical_field = None

\* Under thresholds in the wrong order, a returned batch with a column the
\* thresholds rejected and a column the heuristics rejected.
C10_Witness ==
    /\ Returned
    /\ cfg.hitl_threshold > cfg.auto_accept_threshold
    /\ \E i, j \in 1..Len(mappings) :
         /\ mappings[i].status = "rejected" /\ mappings[i].mapping_score # << >>
         /\ mappings[j].status = "rejected" /\ mappings[j].mapping_score = << >>

\* The renormalized score of catalog field k for column i, as a fraction:
\* RenormNum(i, k) / RenormDen.
RenormNum(i, k) ==
    cfg.weight_name * _calculate_name_similarity(
                          batch[i].source_column.column, get_schema_field_names[k])
    + cfg.weight_type * _calculate_type_compatibility(
                            batch[i].inferred_type, get_schema_field_names[k])
    + cfg.weight_profile * _calculate_profile_score(
                               batch[i], get_schema_field_names[k])

RenormDen == cfg.weight_name + cfg.weight_type + cfg.weight_profile

\* C11: a column with zero proposals is scored against every catalog field
\* with (w_name*name + w_type*type + w_profile*value) / (w_name + w_type +
\* w_profile); the first field of highest score is picked; a score strictly
\* above 0.6 gives that field with status hitl_required, anything else gives
\* status rejected with no canonical_field.
C11_HeuristicBestFieldAndFloor ==
    \A i \in 1..Len(mappings) :
        responses[i].proposed_mappings = << >> =>
            LET fields == 1..Len(get_schema_field_names)
                k == CHOOSE b \in fields :
                       /\ \A j \in fields : RenormNum(i, j) <= RenormNum(i, b)
                       /\ \A j \in fields : j < b => RenormNum(i, j) < RenormNum(i, b)
            IN  /\ mappings[i].mapping_score = << >>
                /\ IF 100 * RenormNum(i, k) > 60 * 100 * RenormDen
                   THEN /\ mappings[i].canonical_field = get_schema_field_names[k]
                        /\ mappings[i].status = "hitl_required"
                   ELSE /\ mappings[i].canonical_field = None
                        /\ mappings[i].status = "rejected"

\* Two columns without proposals: one lands above the floor on a field whose
\* name is not the closest one, the other below it.
C11_Witness ==
    \E i, j \in 1..Len(mappings) :
        /\ responses[i].proposed_mappings = << >>
        /\ responses[j].proposed_mappings = << >>
        /\ mappings[i].status = "hitl_required"
        /\ \E f \in DOMAIN get_schema_field_names :
             /\ get_schema_field_names[f] # mappings[i].canonical_field
             /\ _calculate_name_similarity(batch[i].source_column.column,
                                           get_schema_field_names[f])
                  > _calculate_name_similarity(batch[i].source_column.column,
                                               mappings[i].canonical_field)
        /\ mappings[j].status = "rejected"

\* A profile of a column with zero non-null values.
ZeroNonNull(profile) ==
    /\ profile.non_null_count = 0
    /\ profile.sample_values = << >>
    /\ profile.inferred_type = "string"

\* C12: for a column with zero non-null values resolution does not raise and
\* the status is rejected or hitl_required, never accepted, whatever the
\* Proposal Source returns.
C12_EmptyColumnNeverAccepted ==
    /\ pc # "raised"
    /\ \A i \in 1..Len(mappings) :
         ZeroNonNull(batch[i]) => mappings[i].status \in {"rejected", "hitl_required"}

\* C13: every returned mapping with status hitl_required carries a MappingScore
\* (the four sub-scores and final_score) together with the response the
\* Proposal Source gave for its column, unchanged.
C13_HitlCarriesScoreAndResponse ==
    Returned =>
        \A i \in 1..Len(mappings) :
            mappings[i].status = "hitl_required" =>
                /\ mappings[i].mapping_score # << >>
                /\ mappings[i].llm_response = responses[i]

(***************************************************************************)
(* Properties of the profiler                                              *)
(***************************************************************************)

\* The profiles profile_column can return for a column of the loaded data
\* (one for each order list(symbols) can take).
ComputedProfiles(column) ==
    {profile_column(column, sample_files.data, l) :
         l \in CurrencySymbolLists(column, sample_files.data)}

\* C14: profile_tenant_columns returns exactly one ColumnProfile per schema
\* column; a column whose profiling raises gets the empty profile, and every
\* other column of the table, before or after it, gets the profile computed
\* from its data.
C14_OneProfilePerColumn ==
    ppc = "done" =>
        /\ Len(profiles) = Len(schema_columns)
        /\ \A k \in 1..Len(schema_columns) :
             /\ profiles[k].source_column = SourceColumn(schema_columns[k])
             /\ ~LoadSampleDataRaises(sample_files) =>
                  IF ProfileColumnRaises(schema_columns[k], sample_files.data)
                  THEN profiles[k] = EmptyProfile(schema_columns[k])
                  ELSE profiles[k] \in ComputedProfiles(schema_columns[k])

\* The table's own sample data are absent for the column: no directory, no
\* file for the table, or no such column in the table's file.
DataAbsent(column) ==
    \/ sample_files.kind \in {"no_dir", "no_csv", "other_csv"}
    \/ column \notin DOMAIN sample_files.data

\* C15: no data-absence condition makes the profiler raise: with the column
\* missing from the sample data, the table's sample file missing or the
\* tenant's sample directory missing, profile_column and
\* profile_tenant_columns return the empty profile for the affected columns.
C15_DataAbsenceGivesEmptyProfile ==
    /\ ppc = "raised" =>
         \E k \in 1..Len(schema_columns) : ~DataAbsent(schema_columns[k])
    /\ ppc \in {"columns", "profiled"} =>
         \A k \in 1..Len(profiles) :
             DataAbsent(profiles[k].source_column.column)
             => profiles[k] = EmptyProfile(profiles[k].source_column.column)
    /\ ( /\ ppc = "done"
         /\ \A k \in 1..Len(schema_columns) : DataAbsent(schema_columns[k]) )
       => profiles = EmptyProfilesFor(schema_columns)

\* Profiles that profile_column computed from cells of the loaded data, with
\* those cells: the positions k of such profiles.
FromData ==
    IF \/ ppc \in {"columns", "profiled"}
       \/ /\ ppc = "done"
          /\ ~LoadSampleDataRaises(sample_files)
          /\ \A k \in 1..Len(schema_columns) :
                ~ProfileColumnRaises(schema_columns[k], sample_files.data)
    THEN {k \in 1..Len(profiles) :
              profiles[k].source_column.column \in DOMAIN sample_files.data}
    ELSE {}

CellsOf(k) == sample_files.data[profiles[k].source_column.column]

\* Cell texts that are whole numbers.
WholeNumberTexts == {"1", "0", "12", "3", "24"}

\* C16: _infer_column_type returns the first matching type in the order bool,
\* int, decimal, date, enum, string: all values in the boolean vocabulary is
\* bool; otherwise all whole numbers is int; otherwise all numeric-parseable
\* is decimal; non-numeric, non-date strings of high distinctness are string;
\* an all-null column is string.
C16_TypeInferenceOrder ==
    \A k \in FromData :
        LET values  == Range(dropna(CellsOf(k)))
            n       == Len(dropna(CellsOf(k)))
            allbool == \A v \in values : Lower(v) \in bool_values
            whole   == \A v \in values : v \in WholeNumberTexts
            numeric == \A v \in values : v \in ToNumericAccepts
            type    == profiles[k].inferred_type
        IN  /\ n = 0 => type = "string"
            /\ (n > 0 /\ allbool) => type = "bool"
            /\ (n > 0 /\ ~allbool /\ whole) => type = "int"
            /\ (n > 0 /\ ~allbool /\ ~whole /\ numeric) => type = "decimal"
            /\ ( /\ n > 0
                 /\ ~allbool
                 /\ \A v \in values : v \notin ToNumericAccepts \cup DateParserAccepts
                 /\ 2 * Cardinality(values) >= n )
               => type = "string"

\* C17: _detect_date_patterns returns exactly the named patterns whose regular
\* expression matches strictly more than half of the non-null values, each
\* once, and none for a column without non-null values; a column of YYYY-MM-DD
\* values yields YYYY-MM-DD and a column of MM/DD/YYYY values yields MM/DD/YYYY.
C17_DatePatternsAboveHalf ==
    \A k \in FromData :
        LET str_data == dropna(CellsOf(k))
            patterns == profiles[k].date_patterns
        IN  /\ Range(patterns) =
                 {r.pattern_name : r \in {q \in Range(date_regexes) :
                      2 * CountIn(str_data, q.matches) > Len(str_data)}}
            /\ \A i, j \in 1..Len(patterns) : patterns[i] = patterns[j] => i = j
            /\ Len(str_data) = 0 => patterns = << >>
            /\ (Len(str_data) > 0 /\ Range(str_data) \subseteq MatchesYMD)
                 => "YYYY-MM-DD" \in Range(patterns)
            /\ (Len(str_data) > 0 /\ Range(str_data) \subseteq MatchesSlashYearLast)
                 => "MM/DD/YYYY" \in Range(patterns)

\* One table with a column of MM/DD/YYYY values, reported under both names of
\* that expression, and a column in which exactly half of the values match
\* YYYY-MM-DD, reported under none.
C17_Witness ==
    \E k, h \in FromData :
        /\ profiles[k].date_patterns = <<"MM/DD/YYYY", "DD/MM/YYYY">>
        /\ 2 * CountIn(dropna(CellsOf(h)), MatchesYMD) = Len(dropna(CellsOf(h)))
        /\ Len(dropna(CellsOf(h))) > 0
        /\ profiles[h].date_patterns = << >>

\* The glyphs of currency_regex.
currency_glyphs == {"$", "£", "€", "¥", "₹", "₽", "₩"}

\* C18: _detect_currency_symbols returns exactly the glyphs that occur in at
\* least one of the first 20 non-null values, each once, whatever their
\* frequency; a glyph that occurs only after the 20th non-null value is not
\* returned.
C18_CurrencyGlyphsOfFirstTwenty ==
    \A k \in FromData :
        LET str_data == dropna(CellsOf(k))
            symbols  == profiles[k].currency_symbols
        IN  /\ Range(symbols) =
                 {g \in currency_glyphs :
                      \E i \in 1..Len(str_data) :
                          i <= 20 /\ g \in CurrencyGlyphs(str_data[i])}
            /\ \A i, j \in 1..Len(symbols) : symbols[i] = symbols[j] => i = j

\* A column whose euro sign comes after twenty non-null dollar values, with
\* only the dollar sign reported, and a column reporting a glyph that occurs
\* in one value of three.
C18_Witness ==
    \E k, h \in FromData :
        /\ \E i \in 1..Len(CellsOf(k)) : CellsOf(k)[i] = "€200.50"
        /\ profiles[k].currency_symbols = <<"$">>
        /\ Cardinality(Range(profiles[h].currency_symbols)) = 2
        /\ "£" \in Range(profiles[h].currency_symbols)

\* The names of the canonical catalog.
CatalogFields == {get_schema_field_names[k] : k \in DOMAIN get_schema_field_names}

\* C19: a proposal for a field that is not in the catalog is scored without
\* raising, with type_compatibility 0.0, and under the default weights and
\* thresholds a mapping to such a field never has status accepted.
C19_UnknownFieldNeverAccepted ==
    /\ pc # "raised"
    /\ \A i \in 1..Len(mappings) :
         /\ \A k \in 1..Len(responses[i].proposed_mappings) :
              responses[i].proposed_mappings[k].canonical_field \notin CatalogFields
              => ProposalScores(i)[k].type_compatibility = 0
         /\ mappings[i].canonical_field \notin CatalogFields \cup {None}
              => /\ mappings[i].status # "accepted"
                 /\ mappings[i].mapping_score # << >>
                 /\ mappings[i].mapping_score[1].type_compatibility = 0

\* A mapping of the plan that is eligible for transformation.
Eligible(m) == m.status = "accepted" /\ m.canonical_field # None

\* The lineage records that name a source column.
MappedLineage == SelectSeq(lineage_records, LAMBDA r : r.source_columns # << >>)

\* C20: apply_mapping_plan produces an output column and a lineage record
\* only for mappings whose status is accepted and whose canonical_field is
\* not null: every source column that fills an output column, and every
\* lineage record that names a source column, belongs to such a mapping of
\* the plan with that canonical field, and there are no more such records
\* than such mappings.  The only other column and record are those of
\* contract_value_arr derived from two output columns.  Mappings with status
\* hitl_required, rejected or pending contribute neither.
C20_OnlyAcceptedMappingsTransformed ==
    /\ \A f \in DOMAIN output_df :
         /\ \A src \in output_df[f] :
              \E i \in DOMAIN mapping_plan :
                 /\ Eligible(mapping_plan[i])
                 /\ mapping_plan[i].canonical_field = f
                 /\ mapping_plan[i].source_column = src
         /\ output_df[f] = {} =>
              /\ f = "contract_value_arr"
              /\ {"contract_value_ltv", "renewal_term_months"} \subseteq DOMAIN output_df
    /\ \A k \in DOMAIN lineage_records :
         LET r == lineage_records[k] IN
         IF r.source_columns = << >>
         THEN /\ r.output_field = "contract_value_arr"
              /\ output_df[r.output_field] = {}
         ELSE /\ Len(r.source_columns) = 1
              /\ \E i \in DOMAIN mapping_plan :
                    /\ Eligible(mapping_plan[i])
                    /\ mapping_plan[i].canonical_field = r.output_field
                    /\ mapping_plan[i].source_column = r.source_columns[1]
    /\ Len(MappedLineage)
         <= Cardinality({i \in DOMAIN mapping_plan : Eligible(mapping_plan[i])})

\* A finished run over a plan that mixes an accepted mapping, which produced
\* its column and lineage record, with a mapping awaiting review, whose
\* canonical field is absent from the output and from the lineage.
C20_Witness ==
    /\ xpc = "done"
    /\ \E i, j \in DOMAIN mapping_plan :
         /\ Eligible(mapping_plan[i])
         /\ mapping_plan[i].canonical_field \in DOMAIN output_df
         /\ \E k \in DOMAIN lineage_records :
               /\ lineage_records[k].output_field = mapping_plan[i].canonical_field
               /\ lineage_records[k].source_columns = <<mapping_plan[i].source_column>>
         /\ mapping_plan[j].status = "hitl_required"
         /\ mapping_plan[j].canonical_field \notin DOMAIN output_df
         /\ \A k \in DOMAIN lineage_records :
               lineage_records[k].output_field # mapping_plan[j].canonical_field

(***************************************************************************)
(* Properties of the transform executor                                    *)
(***************************************************************************)

\* The parser a mapping's cells go through: "date", "currency", "enum", or
\* "other" for the transforms that have no parse failure of their own.
ParserOf(m) ==
    IF Truthy(m.transform_rule)
    THEN IF m.transform_rule \in RulesWithParseDate THEN "date"
         ELSE IF m.transform_rule \in RulesWithParseCurrency THEN "currency"
         ELSE "other"
    ELSE IF m.canonical_field \in {"effective_date", "expiry_date"} THEN "date"
    ELSE IF m.canonical_field \in {"contract_value_ltv", "contract_value_arr"}
    THEN "currency"
    ELSE IF m.canonical_field \in {"status", "contract_type"} THEN "enum"
    ELSE "other"

\* The cell text is present and the mapping's parser has no value for it.
CannotParse(m, text) ==
    /\ text # None
    /\ CASE ParserOf(m) = "date" ->
              IF m.transform_rule \in RulesWithFormat
              THEN text \notin StrptimeAccepts
              ELSE text \notin DateParserAccepts
         [] ParserOf(m) = "currency" -> text \notin DOMAIN DecimalOf
         [] ParserOf(m) = "enum" ->
              LET keys == {enum_mappings(m.canonical_field)[k][1] :
                              k \in DOMAIN enum_mappings(m.canonical_field)}
              IN  /\ Strip(Lower(text)) \notin keys
                  /\ \A key \in keys : <<key, Strip(Lower(text))>> \notin PartialMatches
         [] OTHER -> FALSE

\* The rows of the plan's mappings whose cell cannot be parsed, in finished
\* runs where the mapping alone writes its output column: every eligible
\* mapping of the plan reads the same table, no other one has its field.
ParseFailures ==
    { <<i, r>> \in (DOMAIN mapping_plan) \X (1..NumRows(ContractsTable)) :
        LET m == mapping_plan[i] IN
        /\ xpc = "done"
        /\ Eligible(m) /\ m.canonical_field # ""
        /\ \A j \in DOMAIN mapping_plan :
              Eligible(mapping_plan[j]) =>
                 /\ mapping_plan[j].source_column.table = m.source_column.table
                 /\ (j # i => mapping_plan[j].canonical_field # m.canonical_field)
        /\ m.source_column.table \in DOMAIN source_data
        /\ m.source_column.column \in DOMAIN source_data[m.source_column.table]
        /\ r \in DOMAIN source_data[m.source_column.table][m.source_column.column]
        /\ CannotParse(m, source_data[m.source_column.table][m.source_column.column][r]) }

\* The value that cannot be parsed comes out as None in a column that still
\* has every row of the table.
NullInPlace(i, r) ==
    LET m == mapping_plan[i] IN
    /\ m.canonical_field \in DOMAIN output_cells
    /\ Len(output_cells[m.canonical_field])
         = Len(source_data[m.source_column.table][m.source_column.column])
    /\ output_cells[m.canonical_field][r] = << >>

\* TransformResult.errors has an entry about the mapping's column.
FailureRecorded(i) ==
    \E e \in DOMAIN errors : errors[e].column = mapping_plan[i].source_column.column

\* C21: when a value cannot be parsed by the date, currency or enum
\* transform, its output is null, its row stays in the result, nothing is
\* raised (the column is produced), and the failure is recorded as an error
\* string in TransformResult.errors.
C21_ParseFailureIsNullAndRecorded ==
    \A f \in ParseFailures : NullInPlace(f[1], f[2]) /\ FailureRecorded(f[1])

\* contract_value_arr of the output was computed by _apply_derived_fields.
ArrDerived ==
    /\ "contract_value_arr" \in DOMAIN output_df
    /\ output_df["contract_value_arr"] = {}

\* contract_value_ltv / (renewal_term_months / 12) of one row, in hundredths,
\* with None for a missing operand or a zero term.
Annualized(ltv, term_months) ==
    IF ltv = << >> \/ term_months = << >> THEN << >>
    ELSE IF term_months[2] = 0 THEN << >>
    ELSE <<"Decimal", (ltv[2] * 12) \div term_months[2]>>

\* C22: contract_value_arr is derived only after every table transform has
\* run, and exactly when contract_value_ltv and renewal_term_months are both
\* in the output and contract_value_arr was not mapped directly; each of its
\* rows is contract_value_ltv / (renewal_term_months / 12) when both operands
\* are present and the term is not zero, and null otherwise.
C22_ArrDerivedFromLtvAndTerm ==
    /\ ArrDerived => xpc = "done"
    /\ xpc = "done" =>
         /\ ArrDerived =>
              {"contract_value_ltv", "renewal_term_months"} \subseteq DOMAIN output_df
         /\ ( /\ {"contract_value_ltv", "renewal_term_months"} \subseteq DOMAIN output_df
              /\ ~ \E k \in DOMAIN lineage_records :
                     /\ lineage_records[k].output_field = "contract_value_arr"
                     /\ lineage_records[k].source_columns # << >> )
            => ArrDerived
         /\ ArrDerived =>
              \A r \in 1..NumRows(output_cells) :
                 output_cells["contract_value_arr"][r]
                   = Annualized(output_cells["contract_value_ltv"][r],
                                output_cells["renewal_term_months"][r])

\* C25: a column that is neither boolean nor numeric is inferred as date
\* exactly when at least 70% of its sample, the first min(10, n) non-null
\* values, parse as dates; 7 parseable values out of 10 make a date column.
C25_DateAtSeventyPercent ==
    \A k \in FromData :
        LET non_null_data == dropna(CellsOf(k))
            sample        == head(non_null_data, 10)
            parsed_count  == CountIn(sample, DateParserAccepts)
        IN  ( /\ Len(non_null_data) > 0
              /\ ~ \A v \in Range(non_null_data) : Lower(v) \in bool_values
              /\ ~ \A v \in Range(non_null_data) : v \in ToNumericAccepts )
            => ( profiles[k].inferred_type = "date"
                   <=> 10 * parsed_count >= 7 * Len(sample) )

\* The four weights are non-negative and sum to 1.0.
WeightsSumToOne ==
    /\ cfg.weight_llm >= 0 /\ cfg.weight_name >= 0
    /\ cfg.weight_type >= 0 /\ cfg.weight_profile >= 0
    /\ cfg.weight_llm + cfg.weight_name + cfg.weight_type + cfg.weight_profile = 100

\* C26: under every weight configuration whose weights are non-negative and
\* sum to 1.0, all the weight on the LLM signal included, resolving a column
\* the Proposal Source returned no candidate for does not raise: the column
\* gets a mapping, and its status is rejected or hitl_required.
C26_NoProposalNeverRaises ==
    WeightsSumToOne =>
        \A i \in DOMAIN batch :
            responses[i].proposed_mappings = << >> =>
                /\ i \in DOMAIN mappings
                /\ mappings[i].status \in {"rejected", "hitl_required"}

(***************************************************************************)
(* Properties of conflict resolution                                       *)
(***************************************************************************)

\* C28: the step that runs _resolve_conflicts returns the same mappings in
\* the same order and changes only the status (to hitl_required) and the
\* human_feedback of losing claimants: canonical_field, mapping_score,
\* llm_response and transform_rule (and source_column, created_at) of every
\* mapping are kept; the winner of each field, the mappings without a
\* conflict and the rejected mappings are kept in every field; no status
\* becomes accepted or rejected.
C28_ConflictResolutionFrame ==
    [][ (pc = "loop" /\ pc' = "returned") =>
          /\ Len(mappings') = Len(mappings)
          /\ \A i \in DOMAIN mappings :
               LET before == mappings[i]
                   after  == mappings'[i]
                   cands  == FieldCandidates(mappings, before.canonical_field)
               IN  /\ [after EXCEPT !.status = before.status,
                                    !.human_feedback = before.human_feedback] = before
                   /\ ( \/ ~Claims(before)
                        \/ Cardinality(cands) <= 1
                        \/ i = BestCandidate(mappings, cands) ) => after = before
                   /\ after # before =>
                        /\ after.status = "hitl_required"
                        /\ after.human_feedback # << >>
                   /\ after.status \in {"accepted", "rejected"} =>
                        after.status = before.status
      ]_vars

\* A returned batch in which conflict resolution demoted a scored claimant,
\* which keeps its field and score, beside the accepted winner of the field.
C28_Witness ==
    /\ Returned
    /\ \E i, j \in DOMAIN mappings :
         /\ i # j
         /\ Demoted(mappings[i])
         /\ mappings[i].status = "hitl_required"
         /\ mappings[i].mapping_score # << >>
         /\ ~Demoted(mappings[j])
         /\ mappings[j].status = "accepted"
         /\ mappings[j].canonical_field = mappings[i].canonical_field

\* status, canonical_field and human_feedback of every mapping of a list.
Decisions(ms) ==
    [i \in DOMAIN ms |->
        <<ms[i].status, ms[i].canonical_field, ms[i].human_feedback>>]

\* C29: conflict resolution is idempotent: on every list of mappings the
\* resolver built, running _resolve_conflicts on its own output leaves the
\* status, canonical_field and human_feedback of every mapping as the first
\* run set them (same winner of every contested field, no further demotion).
C29_ConflictResolutionIdempotent ==
    pc = "loop" =>
        Decisions(_resolve_conflicts(_resolve_conflicts(mappings)))
          = Decisions(_resolve_conflicts(mappings))

\* A list of mappings, about to be resolved, whose first run demotes a
\* claimant.
C29_Witness ==
    /\ pc = "loop"
    /\ \E i \in DOMAIN mappings :
         /\ ~Demoted(mappings[i])
         /\ Demoted(_resolve_conflicts(mappings)[i])

\* Two claimants of one field have the same key.
TiedClaimants(ms) ==
    \E i, j \in DOMAIN ms :
        /\ i # j
        /\ Claims(ms[i]) /\ Claims(ms[j])
        /\ ms[i].canonical_field = ms[j].canonical_field
        /\ ConflictKey(ms[i]) = ConflictKey(ms[j])

\* C30: the mapping of a column depends on the column and its response only,
\* so a batch in another order resolves a permutation of the same mappings.
\* When no two claimants of a field tie on final_score, the status and
\* canonical_field resolve_batch_mappings gives each column are the same
\* for every order of the batch; when claimants tie (heuristic-only
\* claimants count as 0), the first of the highest claimants in batch order
\* is the winner: it is returned unchanged and the notes name its column.
C30_OrderIndependentUnlessTied ==
    pc = "loop" =>
        LET resolved == _resolve_conflicts(mappings) IN
        /\ ~TiedClaimants(mappings) =>
              \A f \in Permutations(DOMAIN mappings) :
                  LET permuted == _resolve_conflicts(
                                      [k \in DOMAIN mappings |-> mappings[f[k]]])
                  IN  \A k \in DOMAIN mappings :
                          /\ permuted[k].status = resolved[f[k]].status
                          /\ permuted[k].canonical_field = resolved[f[k]].canonical_field
        /\ \A i \in DOMAIN mappings :
              LET cands == FieldCandidates(mappings, mappings[i].canonical_field) IN
              ( /\ Claims(mappings[i])
                /\ Cardinality(cands) > 1
                /\ \A j \in cands : ConflictKey(mappings[j]) <= ConflictKey(mappings[i])
                /\ \A j \in cands : j < i => ConflictKey(mappings[j]) < ConflictKey(mappings[i]) )
              => /\ resolved[i] = mappings[i]
                 /\ \A j \in cands :
                       Demoted(resolved[j]) /\ ~Demoted(mappings[j]) =>
                          resolved[j].human_feedback
                            = <<"Conflict with", mappings[i].source_column.column>>

\* Two columns claim one field with different scores, the later one higher:
\* the earlier one is demoted.
C30_Witness ==
    /\ pc = "loop"
    /\ \E i, j \in DOMAIN mappings :
         /\ i < j
         /\ Claims(mappings[i]) /\ Claims(mappings[j])
         /\ mappings[i].canonical_field = mappings[j].canonical_field
         /\ ConflictKey(mappings[i]) < ConflictKey(mappings[j])
         /\ Demoted(_resolve_conflicts(mappings)[i])
         /\ mappings[i].status = "accepted"

(***************************************************************************)
(* POST /map/apply (routes.py, apply_mapping): profile the tenant's        *)
(* columns, resolve the batch, approve by threshold, run the executor      *)
(***************************************************************************)

\* The tenant's contracts.csv: the file the profiler samples and
\* _load_tenant_data hands to the executor.
TenantTable ==
    [ contract_id     |-> <<"CNT-001", "CNT-002">>,
      cust_nm         |-> <<"Acme Corp", "Acme Corp">>,
      auto_renew_flag |-> <<"True", "False">>,
      expiry_date     |-> <<"2024-01-15", None>> ]

\* The columns of the tenant's schema, in the order profile_tenant_columns
\* walks them.
TenantSchema == <<"contract_id", "cust_nm", "auto_renew_flag", "expiry_date">>

\* A proposal that carries a transform hint.
HintedProposal(field, confidence, hint) ==
    [Proposal(field, confidence) EXCEPT !.transform_hint = hint]

\* A free-text hint that names none of the executor's rules.
BooleanHint == "Convert True/False to boolean"

\* Answers of the Proposal Source in the apply flow: no proposal, or one
\* proposal, with or without a transform hint.
ApplyResponses ==
    { Proposed(<< >>),
      Proposed(<<Proposal("contract_id", 100)>>),
      Proposed(<<Proposal("contract_id", 58)>>),
      Proposed(<<Proposal("auto_renew", 100)>>),
      Proposed(<<HintedProposal("auto_renew", 100, BooleanHint)>>),
      Proposed(<<HintedProposal("effective_date", 100, DateFormatRule)>>) }

\* auto_approve_threshold of the request: << >> when absent, <<t>> for the
\* threshold t in hundredths.
AutoApproveThresholds == {<< >>, <<50>>, <<90>>}

\* The loop of apply_mapping over the resolved mappings.
ApproveAbove(ms, auto_approve_threshold) ==
    IF auto_approve_threshold = << >> THEN ms
    ELSE [i \in DOMAIN ms |->
            IF /\ ms[i].mapping_score # << >>
               /\ ms[i].mapping_score[1].final_score >= 100 * auto_approve_threshold[1]
            THEN [ms[i] EXCEPT !.status = "accepted"]
            ELSE ms[i]]

\* _load_tenant_data: one DataFrame per csv file, named by the file's stem.
_load_tenant_data == [contracts |-> TenantTable]

\* One iteration of the loop of resolve_batch_mappings on the next column of
\* the schema, profiled from the tenant's file.
ResolveTenantColumn ==
    /\ pc = "loop"
    /\ xpc = "idle"
    /\ Len(batch) < Len(TenantSchema)
    /\ \E llm_response \in ApplyResponses :
         LET profile == profile_column(TenantSchema[Len(batch) + 1], TenantTable, << >>)
             now     == clock + 1
         IN  /\ batch' = Append(batch, profile)
             /\ responses' = Append(responses, llm_response)
             /\ mappings' = Append(mappings,
                                   resolve_column_mapping(profile, llm_response, now))
             /\ clock' = now
    /\ UNCHANGED <<cfg, pc, profiler_vars, executor_vars, consumer_vars>>

\* The end of resolve_batch_mappings once every column is resolved.
ReturnTenantMappings ==
    /\ Len(batch) = Len(TenantSchema)
    /\ Return

\* apply_mapping from the threshold loop to the call of apply_mapping_plan.
BuildMappingPlan ==
    /\ pc = "returned"
    /\ xpc = "idle"
    /\ \E auto_approve_threshold \in AutoApproveThresholds :
         /\ mappings' = ApproveAbove(mappings, auto_approve_threshold)
         /\ mapping_plan' = ApproveAbove(mappings, auto_approve_threshold)
    /\ source_data' = _load_tenant_data
    /\ xpc' = "start"
    /\ UNCHANGED <<cfg, pc, batch, responses, clock, profiler_vars,
                   table_mappings, output_df, output_cells, lineage_records, errors,
                   consumer_vars>>

NextApply ==
    \/ ResolveTenantColumn
    \/ ReturnTenantMappings
    \/ BuildMappingPlan
    \/ GroupMappings
    \/ TransformNextTable
    \/ ApplyDerivedFields

\* One request to /map/apply under the default settings.
SpecApply == Init /\ [][NextApply]_vars

\* Whether the state is one of the apply flow with the plan handed over.
PlanHandedOver == pc = "returned" /\ xpc # "idle"

(***************************************************************************)
(* Properties of the apply flow                                            *)
(***************************************************************************)

\* The default transform of the field's type on the mapping's source column.
FieldTypeTransform(m) ==
    _transform_column(source_data[m.source_column.table][m.source_column.column],
                      m.canonical_field, None).values

\* Whether mapping i of the plan is transformed and is the only mapping of
\* the plan writing its canonical field.
SoleWriter(i) ==
    /\ Eligible(mapping_plan[i])
    /\ mapping_plan[i].source_column.table \in DOMAIN source_data
    /\ mapping_plan[i].source_column.column
           \in DOMAIN source_data[mapping_plan[i].source_column.table]
    /\ \A j \in DOMAIN mapping_plan :
          (Eligible(mapping_plan[j])
             /\ mapping_plan[j].canonical_field = mapping_plan[i].canonical_field)
          => j = i

\* C24: once the executor has run on the plan the resolver produced, the
\* output column of every accepted mapping, with or without a transform
\* hint, holds what the transform of its canonical field's type gives on the
\* source column (boolean conversion for auto_renew, date parsing for
\* effective_date, string trim for contract_id).
C24_TransformOfFieldTypeApplied ==
    (PlanHandedOver /\ xpc = "done") =>
        \A i \in DOMAIN mapping_plan :
           SoleWriter(i) =>
              /\ mapping_plan[i].canonical_field \in DOMAIN output_cells
              /\ output_cells[mapping_plan[i].canonical_field]
                     = FieldTypeTransform(mapping_plan[i])

\* C27: in the plan /map/apply hands to the executor, whatever the
\* auto_approve_threshold of the request (absent included), no two mappings
\* with status accepted name the same canonical field.
C27_PlanHasOneAcceptedPerField ==
    PlanHandedOver =>
        \A i, j \in DOMAIN mapping_plan :
           ( /\ Eligible(mapping_plan[i])
             /\ Eligible(mapping_plan[j])
             /\ mapping_plan[i].canonical_field = mapping_plan[j].canonical_field )
           => i = j

(***************************************************************************)
(* Consumers of the resolver: GET /map/preview (routes.py) and             *)
(* GET /api/llm-logs/<tenant> (web_dashboard.py)                           *)
(***************************************************************************)

\* column_profiles[:5] of api_llm_logs.
LogLimit == 5

\* The status of every mapping of ms, in order.
StatusesOf(ms) == [i \in DOMAIN ms |-> ms[i].status]

\* preview_mapping after resolve_batch_mappings has returned: the response
\* lists the status of every mapping.
preview_mapping ==
    /\ pc = "returned"
    /\ xpc = "idle"
    /\ statuses_read' = StatusesOf(mappings)
    /\ pc' = "read"
    /\ UNCHANGED <<cfg, batch, responses, mappings, clock, profiler_vars,
                   executor_vars>>

\* One iteration of the loop of api_llm_logs: the column is resolved on its
\* own by resolve_column_mapping and the status of the mapping goes into the
\* log entry.  (The mapper is also called once for the entry's
\* response_details; that answer plays no part in the mapping.)  batch,
\* responses and mappings keep what the loop has resolved so far.
api_llm_logs ==
    /\ pc = "logs" \/ (pc = "loop" /\ batch = << >>)
    /\ Len(batch) < Min(Len(TenantSchema), LogLimit)
    /\ \E llm_response \in ApplyResponses :
         LET profile == profile_column(TenantSchema[Len(batch) + 1], TenantTable, << >>)
             now     == clock + 1
             mapping == resolve_column_mapping(profile, llm_response, now)
         IN  /\ batch' = Append(batch, profile)
             /\ responses' = Append(responses, llm_response)
             /\ mappings' = Append(mappings, mapping)
             /\ statuses_read' = Append(statuses_read, mapping.status)
             /\ clock' = now
    /\ pc' = "logs"
    /\ UNCHANGED <<cfg, profiler_vars, executor_vars>>

\* The end of the loop of api_llm_logs and its response.
ReturnLogs ==
    /\ pc = "logs"
    /\ Len(batch) = Min(Len(TenantSchema), LogLimit)
    /\ pc' = "logged"
    /\ UNCHANGED <<cfg, batch, responses, mappings, clock, profiler_vars,
                   executor_vars, consumer_vars>>

NextConsumers ==
    \/ ResolveTenantColumn
    \/ ReturnTenantMappings
    \/ preview_mapping
    \/ api_llm_logs
    \/ ReturnLogs

\* One request of a consumer, to /map/preview or to /api/llm-logs, under the
\* default settings.
SpecConsumers == Init /\ [][NextConsumers]_vars

\* Whether a consumer has answered its request.
Answered == pc \in {"read", "logged"}

\* C23: conflict resolution is a synchronization point: once a consumer has
\* answered, it has read one status per column of the batch, and each status
\* it read is the one conflict resolution over the full batch gives that
\* column.
C23_StatusReadAfterConflictResolution ==
    Answered =>
        /\ Len(statuses_read) = Len(batch)
        /\ statuses_read = StatusesOf(_resolve_conflicts(mappings))

====
